---- MODULE Spec2Model ----
(***************************************************************************)
(* Model of egui's theme module, crates/egui/src/style.rs: the Style       *)
(* aggregate, text-style / font resolution and the classification of a     *)
(* widget Response into one of the WidgetVisuals entries.                  *)
(*                                                                         *)
(* Conventions.  f32 quantities that the presets write with one decimal    *)
(* (font sizes, stroke widths, expansion) are kept as integers in tenths.  *)
(* Option<T> is a sequence of length 0 (None) or 1 (Some).  A Color32 is   *)
(* the 4-tuple of its premultiplied bytes <<r, g, b, a>>.  A reference to  *)
(* one of the five fields of Widgets is the name of that field.            *)
(***************************************************************************)
EXTENDS Integers, Sequences, FiniteSets, TLC

\* ------------------------------------------------------------------ bounds
\* Number of distinct user-defined TextStyle::Name(..) keys in the universe.
MaxNames == 1

\* Number of host writes to the font fields of a Style explored from a preset.
MaxEdits == 2

\* Number of editor writes to the Visuals of a Style explored from a preset.
MaxVisualEdits == 1

\* Most writes made to the visuals in the text-color machine.
MaxAccessorEdits == 2

\* Number of addresses an Arc allocation can be given.
MaxAllocs == 3

\* Number of threads that share one style.
MaxThreads == 2

\* Number of writes made through the style editor.
MaxEditorOps == 3

\* Passes of the CornerRadius widget made on one style.
MaxCornerPasses == 2

\* ------------------------------------------------------------------ Option
None == <<>>

Some(x) == <<x>>

IsSome(o) == Len(o) = 1

Unwrap(o) == o[1]

\* ------------------------------------------------------------------ colors
Color32_TRANSPARENT == <<0, 0, 0, 0>>

Color32_BLACK == <<0, 0, 0, 255>>

Color32_WHITE == <<255, 255, 255, 255>>

from_gray(l) == <<l, l, l, 255>>

from_rgb(r, g, b) == <<r, g, b, 255>>

\* Stroke::new(width, color); width in tenths.
Stroke_new(width, color) == [width |-> width, color |-> color]

\* Stroke::default() is Stroke::NONE: zero width, transparent.
Stroke_default == Stroke_new(0, Color32_TRANSPARENT)

CornerRadius_same(r) == [nw |-> r, ne |-> r, sw |-> r, se |-> r]

\* ------------------------------------------------------------ text styles
\* enum TextStyle, in declaration order (the derived Ord compares the variant
\* first, then the name).  A name is an index into the universe of names.
Variants == <<"Small", "Body", "Monospace", "Button", "Heading", "Name">>

TextStyle_Small == [variant |-> "Small", name |-> 0]

TextStyle_Body == [variant |-> "Body", name |-> 0]

TextStyle_Monospace == [variant |-> "Monospace", name |-> 0]

TextStyle_Button == [variant |-> "Button", name |-> 0]

TextStyle_Heading == [variant |-> "Heading", name |-> 0]

TextStyle_Name(n) == [variant |-> "Name", name |-> n]

BuiltinTextStyles ==
    {TextStyle_Small, TextStyle_Body, TextStyle_Monospace, TextStyle_Button,
     TextStyle_Heading}

TextStyles == BuiltinTextStyles \cup {TextStyle_Name(n) : n \in 1..MaxNames}

VariantIndex(k) == CHOOSE i \in 1..Len(Variants) : Variants[i] = k.variant

\* Faulty variant of derive(Ord) on TextStyle: the variants are ordered by
\* their names' spelling instead of their declaration order.
TextStyleLess_by_spelling(a, b) ==
    LET spelled == <<"Body", "Button", "Heading", "Monospace", "Name", "Small">>
        at(k) == CHOOSE i \in 1..Len(spelled) : spelled[i] = k.variant
    IN  \/ at(a) < at(b)
        \/ at(a) = at(b) /\ a.name < b.name

\* derive(Ord) on TextStyle.
TextStyleLess(a, b) ==
    \/ VariantIndex(a) < VariantIndex(b)
    \/ VariantIndex(a) = VariantIndex(b) /\ a.name < b.name

\* FontId::new(size, family); size in tenths of a point.
FontId_new(size, family) == [size |-> size, family |-> family]

\* FontId::default(): 14.0, Proportional.
FontId_default == FontId_new(140, "Proportional")

\* The font ids a host or the editor writes in this model.
FontIds == {FontId_default, FontId_new(200, "Monospace")}

\* Faulty variant of default_text_styles: the Monospace entry is left out.
default_text_styles_no_monospace ==
    (TextStyle_Small :> FontId_new(90, "Proportional"))
    @@ (TextStyle_Body :> FontId_new(125, "Proportional"))
    @@ (TextStyle_Button :> FontId_new(125, "Proportional"))
    @@ (TextStyle_Heading :> FontId_new(180, "Proportional"))

\* The default text styles of the default egui theme.
default_text_styles ==
    (TextStyle_Small :> FontId_new(90, "Proportional"))
    @@ (TextStyle_Body :> FontId_new(125, "Proportional"))
    @@ (TextStyle_Button :> FontId_new(125, "Proportional"))
    @@ (TextStyle_Heading :> FontId_new(180, "Proportional"))
    @@ (TextStyle_Monospace :> FontId_new(120, "Monospace"))

\* ---------------------------------------------------------------- presets
WidgetVisuals(weak_bg_fill, bg_fill, bg_stroke, fg_stroke, corner_radius, expansion) ==
    [weak_bg_fill |-> weak_bg_fill, bg_fill |-> bg_fill, bg_stroke |-> bg_stroke,
     fg_stroke |-> fg_stroke, corner_radius |-> corner_radius,
     expansion |-> expansion]

\* Widgets::dark()
Widgets_dark ==
    [noninteractive |->
        WidgetVisuals(from_gray(27), from_gray(27), Stroke_new(10, from_gray(60)),
                      Stroke_new(10, from_gray(140)), CornerRadius_same(2), 0),
     inactive |->
        WidgetVisuals(from_gray(60), from_gray(60), Stroke_default,
                      Stroke_new(10, from_gray(180)), CornerRadius_same(2), 0),
     hovered |->
        WidgetVisuals(from_gray(70), from_gray(70), Stroke_new(10, from_gray(150)),
                      Stroke_new(15, from_gray(240)), CornerRadius_same(3), 10),
     active |->
        WidgetVisuals(from_gray(55), from_gray(55), Stroke_new(10, Color32_WHITE),
                      Stroke_new(20, Color32_WHITE), CornerRadius_same(2), 10),
     open |->
        WidgetVisuals(from_gray(45), from_gray(27), Stroke_new(10, from_gray(60)),
                      Stroke_new(10, from_gray(210)), CornerRadius_same(2), 0)]

\* Faulty variant of Widgets::light: the inactive entry's bg_fill is left transparent,
\* like its bg_stroke.
Widgets_light_transparent_inactive ==
    [noninteractive |->
        WidgetVisuals(from_gray(248), from_gray(248), Stroke_new(10, from_gray(190)),
                      Stroke_new(10, from_gray(80)), CornerRadius_same(2), 0),
     inactive |->
        WidgetVisuals(from_gray(230), Color32_TRANSPARENT, Stroke_default,
                      Stroke_new(10, from_gray(60)), CornerRadius_same(2), 0),
     hovered |->
        WidgetVisuals(from_gray(220), from_gray(220), Stroke_new(10, from_gray(105)),
                      Stroke_new(15, Color32_BLACK), CornerRadius_same(3), 10),
     active |->
        WidgetVisuals(from_gray(165), from_gray(165), Stroke_new(10, Color32_BLACK),
                      Stroke_new(20, Color32_BLACK), CornerRadius_same(2), 10),
     open |->
        WidgetVisuals(from_gray(220), from_gray(220), Stroke_new(10, from_gray(160)),
                      Stroke_new(10, Color32_BLACK), CornerRadius_same(2), 0)]

\* Widgets::light()
Widgets_light ==
    [noninteractive |->
        WidgetVisuals(from_gray(248), from_gray(248), Stroke_new(10, from_gray(190)),
                      Stroke_new(10, from_gray(80)), CornerRadius_same(2), 0),
     inactive |->
        WidgetVisuals(from_gray(230), from_gray(230), Stroke_default,
                      Stroke_new(10, from_gray(60)), CornerRadius_same(2), 0),
     hovered |->
        WidgetVisuals(from_gray(220), from_gray(220), Stroke_new(10, from_gray(105)),
                      Stroke_new(15, Color32_BLACK), CornerRadius_same(3), 10),
     active |->
        WidgetVisuals(from_gray(165), from_gray(165), Stroke_new(10, Color32_BLACK),
                      Stroke_new(20, Color32_BLACK), CornerRadius_same(2), 10),
     open |->
        WidgetVisuals(from_gray(220), from_gray(220), Stroke_new(10, from_gray(160)),
                      Stroke_new(10, Color32_BLACK), CornerRadius_same(2), 0)]

\* Selection::dark()
Selection_dark ==
    [bg_fill |-> from_rgb(0, 92, 128),
     stroke |-> Stroke_new(10, from_rgb(192, 222, 255))]

\* Selection::light()
Selection_light ==
    [bg_fill |-> from_rgb(144, 209, 255),
     stroke |-> Stroke_new(10, from_rgb(0, 83, 125))]

\* impl Default for Widgets / Selection.
Widgets_default == Widgets_dark

Selection_default == Selection_dark

\* Color32::from_black_alpha(a)
from_black_alpha(a) == <<0, 0, 0, a>>

\* Color32::from_additive_luminance(l)
from_additive_luminance(l) == <<l, l, l, 0>>

\* struct Shadow; offset, blur and spread are whole numbers in the presets.
Shadow(offset, blur, spread, color) ==
    [offset |-> offset, blur |-> blur, spread |-> spread, color |-> color]

\* impl Default for TextCursorStyle; durations in tenths of a second.
TextCursorStyle_default ==
    [stroke |-> Stroke_new(20, from_rgb(192, 222, 255)),
     preview |-> FALSE,
     blink |-> TRUE,
     on_duration |-> 5,
     off_duration |-> 5]

\* Visuals::dark(); weak_text_alpha, resize_corner_size, clip_rect_margin and
\* disabled_alpha in tenths.
Visuals_dark ==
    [dark_mode |-> TRUE,
     text_alpha_from_coverage |-> "DARK_MODE_DEFAULT",
     override_text_color |-> None,
     weak_text_alpha |-> 6,
     weak_text_color |-> None,
     widgets |-> Widgets_default,
     selection |-> Selection_default,
     hyperlink_color |-> from_rgb(90, 170, 255),
     faint_bg_color |-> from_additive_luminance(5),
     extreme_bg_color |-> from_gray(10),
     text_edit_bg_color |-> None,
     code_bg_color |-> from_gray(64),
     warn_fg_color |-> from_rgb(255, 143, 0),
     error_fg_color |-> from_rgb(255, 0, 0),
     window_corner_radius |-> CornerRadius_same(6),
     window_shadow |-> Shadow(<<10, 20>>, 15, 0, from_black_alpha(96)),
     window_fill |-> from_gray(27),
     window_stroke |-> Stroke_new(10, from_gray(60)),
     window_highlight_topmost |-> TRUE,
     menu_corner_radius |-> CornerRadius_same(6),
     panel_fill |-> from_gray(27),
     popup_shadow |-> Shadow(<<6, 10>>, 8, 0, from_black_alpha(96)),
     resize_corner_size |-> 120,
     text_cursor |-> TextCursorStyle_default,
     clip_rect_margin |-> 30,
     button_frame |-> TRUE,
     collapsing_header_frame |-> FALSE,
     indent_has_left_vline |-> TRUE,
     striped |-> FALSE,
     slider_trailing_fill |-> FALSE,
     handle_shape |-> "Circle",
     interact_cursor |-> None,
     image_loading_spinners |-> TRUE,
     numeric_color_space |-> "GammaByte",
     disabled_alpha |-> 5]

\* Faulty variant of Visuals::light: it also sets a field of its own that the
\* source takes from dark().
Visuals_light_own_disabled_alpha ==
    [Visuals_dark EXCEPT
        !.dark_mode = FALSE,
        !.widgets = Widgets_light,
        !.selection = Selection_light,
        !.disabled_alpha = 3]

\* Visuals::light(): the fields it lists, the rest taken from ..Self::dark().
Visuals_light ==
    [Visuals_dark EXCEPT
        !.dark_mode = FALSE,
        !.text_alpha_from_coverage = "LIGHT_MODE_DEFAULT",
        !.widgets = Widgets_light,
        !.selection = Selection_light,
        !.hyperlink_color = from_rgb(0, 155, 255),
        !.faint_bg_color = from_additive_luminance(5),
        !.extreme_bg_color = from_gray(255),
        !.code_bg_color = from_gray(230),
        !.warn_fg_color = from_rgb(255, 100, 0),
        !.error_fg_color = from_rgb(255, 0, 0),
        !.window_shadow = Shadow(<<10, 20>>, 15, 0, from_black_alpha(25)),
        !.window_fill = from_gray(248),
        !.window_stroke = Stroke_new(10, from_gray(190)),
        !.panel_fill = from_gray(248),
        !.popup_shadow = Shadow(<<6, 10>>, 8, 0, from_black_alpha(25)),
        !.text_cursor = [TextCursorStyle_default EXCEPT
                            !.stroke = Stroke_new(20, from_rgb(0, 83, 125))]]

\* Faulty variant of Default for Visuals: the light preset.
Visuals_default_light == Visuals_light

\* impl Default for Visuals
Visuals_default == Visuals_dark

\* ScrollStyle::solid(); widths and margins in tenths of a point, opacities
\* in tenths.
ScrollStyle_solid ==
    [floating |-> FALSE,
     bar_width |-> 60,
     handle_min_length |-> 120,
     bar_inner_margin |-> 40,
     bar_outer_margin |-> 0,
     floating_width |-> 20,
     floating_allocated_width |-> 0,
     foreground_color |-> FALSE,
     dormant_background_opacity |-> 0,
     active_background_opacity |-> 4,
     interact_background_opacity |-> 7,
     dormant_handle_opacity |-> 0,
     active_handle_opacity |-> 6,
     interact_handle_opacity |-> 10]

\* ScrollStyle::thin()
ScrollStyle_thin ==
    [ScrollStyle_solid EXCEPT
        !.floating = TRUE,
        !.bar_width = 100,
        !.floating_allocated_width = 60,
        !.foreground_color = FALSE,
        !.dormant_background_opacity = 10,
        !.dormant_handle_opacity = 10,
        !.active_background_opacity = 10,
        !.active_handle_opacity = 10,
        !.interact_background_opacity = 6,
        !.interact_handle_opacity = 6]

\* ScrollStyle::floating()
ScrollStyle_floating ==
    [ScrollStyle_solid EXCEPT
        !.floating = TRUE,
        !.bar_width = 100,
        !.foreground_color = TRUE,
        !.floating_allocated_width = 0,
        !.dormant_background_opacity = 0,
        !.dormant_handle_opacity = 0]

\* impl Default for ScrollStyle
ScrollStyle_default == ScrollStyle_floating

\* An f32 speed: finite with a value, or f32::INFINITY.
Finite(x) == [inf |-> FALSE, val |-> x]
F32_INFINITY == [inf |-> TRUE, val |-> 0]

\* Rangef::new(min, max)
Rangef_new(min, max) == [min |-> min, max |-> max]

\* ScrollAnimation::new(points_per_second, duration); durations in
\* milliseconds.
ScrollAnimation_new(points_per_second, duration) ==
    [points_per_second |-> points_per_second, duration |-> duration]

\* impl Default for ScrollAnimation: 1000 points per second, 0.1 s to 0.3 s.
ScrollAnimation_default ==
    ScrollAnimation_new(Finite(1000), Rangef_new(100, 300))

\* ScrollAnimation::none()
ScrollAnimation_none == ScrollAnimation_new(F32_INFINITY, Rangef_new(0, 0))

\* Faulty variant of ScrollAnimation::duration: the range starts at zero.
ScrollAnimation_duration_from_zero(t) ==
    ScrollAnimation_new(F32_INFINITY, Rangef_new(0, t))

\* ScrollAnimation::duration(t)
ScrollAnimation_duration(t) ==
    ScrollAnimation_new(F32_INFINITY, Rangef_new(t, t))

\* NumberFormatter::new(formatter): the callable `fn` moved into a new Arc,
\* whose allocation is `ptr`.
NumberFormatter_new(ptr, fn) == [ptr |-> ptr, fn |-> fn]

\* The allocation made by the Style::default() call that builds the host's
\* style.
HostAlloc == 1

\* impl Default for Style, with the NumberFormatter's Arc allocated at `ptr`.
Style_default_at(ptr) ==
    [override_font_id |-> None,
     override_text_style |-> None,
     text_styles |-> default_text_styles,
     drag_value_text_style |-> TextStyle_Button,
     number_formatter |->
         NumberFormatter_new(ptr, "emath::format_with_decimals_in_range"),
     spacing |-> [scroll |-> ScrollStyle_default],
     visuals |-> Visuals_default,
     scroll_animation |-> ScrollAnimation_default]

\* The Style::default() value the host starts from.
Style_default == Style_default_at(HostAlloc)

\* ------------------------------------------------------------- the state
\* ------------------------------------------------------- the Sliders demo
\* f64 values of the demo: w + m/1000 for an i32 w and m in 0..999, and
\* beyond the i32 range one finite value and one infinity on either side.
Num(w, m) == [whole |-> w, milli |-> m]
Beyond(sign, infinite) == [sign |-> sign, infinite |-> infinite]
F64_INFINITY == Beyond(1, TRUE)
F64_NEG_INFINITY == Beyond(-1, TRUE)
IsNum(x) == "whole" \in DOMAIN x

\* i32::MAX and i32::MIN.
I32_MAX == 2147483647
I32_MIN == -I32_MAX - 1

\* x < y on f64.
F64_lt(x, y) ==
    IF IsNum(x)
    THEN IF IsNum(y)
         THEN x.whole < y.whole \/ (x.whole = y.whole /\ x.milli < y.milli)
         ELSE y.sign = 1
    ELSE IF IsNum(y)
         THEN x.sign = -1
         ELSE \/ x.sign < y.sign
              \/ x.sign = y.sign /\ x.sign = 1 /\ ~x.infinite /\ y.infinite
              \/ x.sign = y.sign /\ x.sign = -1 /\ x.infinite /\ ~y.infinite

\* f64::clamp.
F64_clamp(self, min, max) ==
    IF F64_lt(self, min) THEN min ELSE IF F64_lt(max, self) THEN max ELSE self

\* `x as i32` of an f64: towards zero, and the nearest i32 beyond the range.
F64_as_i32(x) ==
    IF IsNum(x)
    THEN IF x.whole < 0 /\ x.milli > 0 THEN x.whole + 1 ELSE x.whole
    ELSE IF x.sign = 1 THEN I32_MAX ELSE I32_MIN

\* `i as f64` of an i32.
I32_as_f64(i) == Num(i, 0)

\* std::f64::consts::PI, to the thousandth.
F64_PI == Num(3, 141)

\* impl Default for Sliders.
Sliders_default ==
    [min |-> Num(0, 0), max |-> Num(10000, 0), logarithmic |-> TRUE,
     clamping |-> "Always", smart_aim |-> TRUE, step |-> Num(10, 0),
     use_steps |-> FALSE, integer |-> FALSE, vertical |-> FALSE,
     value |-> Num(10, 0), trailing_fill |-> FALSE, handle_shape |-> "Circle"]

VARIABLES
    style,   \* the Style aggregate held by the host
    ret,     \* the last call or reset made on `style`: its arguments and result
    edits,   \* number of writes made to `style` since it last was as constructed
    sliders  \* the Sliders demo of egui_demo_lib, which the host shows as well

vars == <<style, ret, edits, sliders>>

\* No resolution call has been made on the current value of `style`.
NoCall == [op |-> "none"]

\* -------------------------------------------------- TextStyle / FontSelection
Ok(v) == [kind |-> "ok", val |-> v]

\* panic!("Failed to find {:?} in Style::text_styles. Available styles:\n{:#?}")
Panic(key, available) == [kind |-> "panic", missing |-> key, available |-> available]

\* BTreeMap::get
BTreeMap_get(map, key) == IF key \in DOMAIN map THEN Some(map[key]) ELSE None

RECURSIVE SortedKeys(_)
\* BTreeMap::keys(): the keys in ascending order of the derived Ord.
SortedKeys(S) ==
    IF S = {} THEN <<>>
    ELSE LET least == CHOOSE k \in S : \A o \in S \ {k} : TextStyleLess(k, o)
         IN  <<least>> \o SortedKeys(S \ {least})

\* The elements of a sequence.
Range(seq) == {seq[i] : i \in 1..Len(seq)}

\* Style::text_styles(): all known text styles.
Style_text_styles(self) == SortedKeys(DOMAIN self.text_styles)

\* Faulty variant of TextStyle::resolve: a missing key falls back to the Body entry.
TextStyle_resolve_fallback(self, st) ==
    LET found == BTreeMap_get(st.text_styles, self)
        body == BTreeMap_get(st.text_styles, TextStyle_Body)
    IN  IF IsSome(found) THEN Ok(Unwrap(found))
        ELSE IF IsSome(body) THEN Ok(Unwrap(body))
        ELSE Panic(self, Style_text_styles(st))

\* TextStyle::resolve: look the key up in Style::text_styles, panic if absent.
TextStyle_resolve(self, st) ==
    LET found == BTreeMap_get(st.text_styles, self)
    IN  IF IsSome(found) THEN Ok(Unwrap(found))
        ELSE Panic(self, Style_text_styles(st))

\* enum FontSelection { Default, FontId(FontId), Style(TextStyle) }
FontSelection_Default == [sel |-> "Default"]

FontSelection_FontId(font_id) == [sel |-> "FontId", font_id |-> font_id]

FontSelection_Style(text_style) == [sel |-> "Style", text_style |-> text_style]

FontSelections ==
    {FontSelection_Default}
    \cup {FontSelection_FontId(f) : f \in FontIds}
    \cup {FontSelection_Style(k) : k \in TextStyles}

\* Faulty variant of FontSelection::resolve: Default tests the text-style override
\* before the font-id override.
FontSelection_resolve_text_style_first(self, st) ==
    CASE self.sel = "Default" ->
            IF IsSome(st.override_text_style)
            THEN TextStyle_resolve(Unwrap(st.override_text_style), st)
            ELSE IF IsSome(st.override_font_id) THEN Ok(Unwrap(st.override_font_id))
                 ELSE TextStyle_resolve(TextStyle_Body, st)
      [] self.sel = "FontId" -> Ok(self.font_id)
      [] self.sel = "Style" -> TextStyle_resolve(self.text_style, st)

\* Faulty variant of FontSelection::resolve: Default ignores override_text_style.
FontSelection_resolve_no_text_style(self, st) ==
    CASE self.sel = "Default" ->
            IF IsSome(st.override_font_id) THEN Ok(Unwrap(st.override_font_id))
            ELSE TextStyle_resolve(TextStyle_Body, st)
      [] self.sel = "FontId" -> Ok(self.font_id)
      [] self.sel = "Style" -> TextStyle_resolve(self.text_style, st)

\* Faulty variant of FontSelection::resolve: the font-id override is applied to every
\* selection, not only to Default.
FontSelection_resolve_override_all(self, st) ==
    IF IsSome(st.override_font_id) THEN Ok(Unwrap(st.override_font_id))
    ELSE CASE self.sel = "Default" ->
                 IF IsSome(st.override_text_style)
                 THEN TextStyle_resolve(Unwrap(st.override_text_style), st)
                 ELSE TextStyle_resolve(TextStyle_Body, st)
           [] self.sel = "FontId" -> Ok(self.font_id)
           [] self.sel = "Style" -> TextStyle_resolve(self.text_style, st)

\* FontSelection::resolve
FontSelection_resolve(self, st) ==
    CASE self.sel = "Default" ->
            IF IsSome(st.override_font_id) THEN Ok(Unwrap(st.override_font_id))
            ELSE IF IsSome(st.override_text_style)
                 THEN TextStyle_resolve(Unwrap(st.override_text_style), st)
                 ELSE TextStyle_resolve(TextStyle_Body, st)
      [] self.sel = "FontId" -> Ok(self.font_id)
      [] self.sel = "Style" -> TextStyle_resolve(self.text_style, st)

\* ------------------------------------------------------------ widget visuals
\* What Widgets::style reads of a Response.
Responses ==
    [interactive : BOOLEAN, is_pointer_button_down_on : BOOLEAN,
     has_focus : BOOLEAN, clicked : BOOLEAN, hovered : BOOLEAN,
     highlighted : BOOLEAN]

\* The five fields of struct Widgets.
WidgetFields == {"noninteractive", "inactive", "hovered", "active", "open"}

\* Faulty variant of Widgets::style: the hovered test is made before the active test.
Widgets_style_hovered_first(self, response) ==
    IF ~response.interactive THEN "noninteractive"
    ELSE IF response.hovered \/ response.highlighted THEN "hovered"
    ELSE IF response.is_pointer_button_down_on \/ response.has_focus \/ response.clicked
         THEN "active"
    ELSE "inactive"

\* Faulty variant of Widgets::style: the sense of the response is tested last.
Widgets_style_sense_last(self, response) ==
    IF response.is_pointer_button_down_on \/ response.has_focus \/ response.clicked
    THEN "active"
    ELSE IF response.hovered \/ response.highlighted THEN "hovered"
    ELSE IF ~response.interactive THEN "noninteractive"
    ELSE "inactive"

\* Faulty variant of Widgets::style: the last branch returns &self.open.
Widgets_style_open_at_rest(self, response) ==
    IF ~response.interactive THEN "noninteractive"
    ELSE IF response.is_pointer_button_down_on \/ response.has_focus \/ response.clicked
         THEN "active"
    ELSE IF response.hovered \/ response.highlighted THEN "hovered"
    ELSE "open"

\* Widgets::style: a reference to one field of self.
Widgets_style(self, response) ==
    IF ~response.interactive THEN "noninteractive"
    ELSE IF response.is_pointer_button_down_on \/ response.has_focus \/ response.clicked
         THEN "active"
    ELSE IF response.hovered \/ response.highlighted THEN "hovered"
    ELSE "inactive"

\* Style::interact
Style_interact(self, response) == Widgets_style(self.visuals.widgets, response)

\* Style::noninteractive
Style_noninteractive(self) == "noninteractive"

\* Dereference a &WidgetVisuals obtained from Style `self`.
Deref(self, ref) == self.visuals.widgets[ref]

\* Faulty variant of Style::interact_selectable: the assignment of bg_stroke that the
\* source keeps commented out is made.
Style_interact_selectable_bg_stroke(self, response, selected) ==
    LET visuals == self.visuals.widgets[Widgets_style(self.visuals.widgets, response)]
    IN  IF selected
        THEN [visuals EXCEPT !.weak_bg_fill = self.visuals.selection.bg_fill,
                             !.bg_fill = self.visuals.selection.bg_fill,
                             !.bg_stroke = self.visuals.selection.stroke,
                             !.fg_stroke = self.visuals.selection.stroke]
        ELSE visuals

\* Faulty variant of Style::interact_selectable: a selected widget also takes
\* the expansion and corner radius of the active entry.
Style_interact_selectable_reshaping(self, response, selected) ==
    LET visuals == self.visuals.widgets[Widgets_style(self.visuals.widgets, response)]
    IN  IF selected
        THEN [visuals EXCEPT !.weak_bg_fill = self.visuals.selection.bg_fill,
                             !.bg_fill = self.visuals.selection.bg_fill,
                             !.fg_stroke = self.visuals.selection.stroke,
                             !.expansion = self.visuals.widgets.active.expansion,
                             !.corner_radius =
                                 self.visuals.widgets.active.corner_radius]
        ELSE visuals

\* Style::interact_selectable
Style_interact_selectable(self, response, selected) ==
    LET visuals == Deref(self, Widgets_style(self.visuals.widgets, response))
    IN  IF selected
        THEN [visuals EXCEPT !.weak_bg_fill = self.visuals.selection.bg_fill,
                             !.bg_fill = self.visuals.selection.bg_fill,
                             !.fg_stroke = self.visuals.selection.stroke]
        ELSE visuals

\* -------------------------------------------------------------- the machine
\* Style::default(), or the same with the light preset installed as visuals.
Init ==
    /\ style \in {Style_default, [Style_default EXCEPT !.visuals = Visuals_light]}
    /\ ret = NoCall
    /\ edits = 0
    /\ sliders = Sliders_default

\* A write to `style`; the result of an earlier call no longer describes it.
Write(new) ==
    /\ style' = new
    /\ ret' = NoCall
    /\ edits' = edits + 1
    /\ UNCHANGED sliders

\* The host assigns the public field Style::override_font_id.
SetOverrideFontId(v) ==
    /\ edits < MaxEdits
    /\ v # style.override_font_id
    /\ Write([style EXCEPT !.override_font_id = v])

\* The host assigns the public field Style::override_text_style; nothing
\* requires the key to be one of text_styles.
SetOverrideTextStyle(v) ==
    /\ edits < MaxEdits
    /\ v # style.override_text_style
    /\ Write([style EXCEPT !.override_text_style = v])

\* BTreeMap::insert on the public field Style::text_styles: adds the key or
\* replaces the FontId it maps to.
InsertTextStyle(key, font_id) ==
    /\ edits < MaxEdits
    /\ BTreeMap_get(style.text_styles, key) # Some(font_id)
    /\ Write([style EXCEPT !.text_styles =
                 [k \in DOMAIN style.text_styles \cup {key} |->
                     IF k = key THEN font_id ELSE style.text_styles[k]]])

\* BTreeMap::remove on the public field Style::text_styles.
RemoveTextStyle(key) ==
    /\ edits < MaxEdits
    /\ key \in DOMAIN style.text_styles
    /\ Write([style EXCEPT !.text_styles =
                 [k \in DOMAIN style.text_styles \ {key} |-> style.text_styles[k]]])

\* Resolution only reads `style`, so a call made while the result of another
\* is still held reaches no state that a call made right after the last write
\* does not reach: calls are explored from the states in which none is held.
Idle == ret = NoCall

\* A caller runs key.resolve(&style).
CallTextStyleResolve(key) ==
    /\ Idle
    /\ ret' = [op |-> "TextStyle::resolve", key |-> key,
               out |-> TextStyle_resolve(key, style)]
    /\ UNCHANGED <<style, edits, sliders>>

\* A caller runs selection.resolve(&style).
CallFontSelectionResolve(selection) ==
    /\ Idle
    /\ ret' = [op |-> "FontSelection::resolve", selection |-> selection,
               out |-> FontSelection_resolve(selection, style)]
    /\ UNCHANGED <<style, edits, sliders>>

Next ==
    \/ \E v \in {None} \cup {Some(f) : f \in FontIds} : SetOverrideFontId(v)
    \/ \E v \in {None} \cup {Some(k) : k \in TextStyles} : SetOverrideTextStyle(v)
    \/ \E k \in TextStyles, f \in FontIds : InsertTextStyle(k, f)
    \/ \E k \in TextStyles : RemoveTextStyle(k)
    \/ \E k \in TextStyles : CallTextStyleResolve(k)
    \/ \E s \in FontSelections : CallFontSelectionResolve(s)

\* Font resolution over the styles a host can build.
Spec == Init /\ [][Next]_vars

\* ---------------------------------------------------- the visuals machine
\* Colors the color picker is set to in this model.
Palette == {Color32_TRANSPARENT, from_rgb(255, 0, 0)}

\* Strokes the stroke editor is set to in this model.
Strokes == {Stroke_new(30, from_rgb(255, 0, 0))}

\* Values the expansion DragValue is set to in this model.
Expansions == {25}

\* Values the corner-radius editor is set to in this model.
CornerRadii == {CornerRadius_same(5)}

\* WidgetVisuals::ui, run on one field of Widgets by Widgets::ui: the editor
\* offers each of the six fields of the entry.
WidgetVisualsUi(entry, field, value) ==
    /\ edits < MaxVisualEdits
    /\ field \in {"weak_bg_fill", "bg_fill", "bg_stroke", "corner_radius",
                 "fg_stroke", "expansion"}
    /\ value # style.visuals.widgets[entry][field]
    /\ Write([style EXCEPT !.visuals.widgets[entry][field] = value])

\* Selection::ui: the editor offers bg_fill and stroke.
SelectionUi(field, value) ==
    /\ edits < MaxVisualEdits
    /\ field \in {"bg_fill", "stroke"}
    /\ value # style.visuals.selection[field]
    /\ Write([style EXCEPT !.visuals.selection[field] = value])

\* Faulty variant of "Reset visuals": the dark preset is installed whatever
\* dark_mode says.
ResetVisuals_to_dark ==
    /\ style.visuals # Visuals_dark
    /\ style' = [style EXCEPT !.visuals = Visuals_dark]
    /\ ret' = [op |-> "Reset visuals", before |-> style.visuals]
    /\ edits' = 0
    /\ UNCHANGED sliders

\* The "Reset visuals" button of Visuals::ui: enabled when the visuals differ
\* from the preset that dark_mode names, it installs that preset.  The style
\* is then the preset again, so the count of writes starts over.
ResetVisuals ==
    LET preset == IF style.visuals.dark_mode THEN Visuals_dark ELSE Visuals_light
    IN  /\ style.visuals # preset
        /\ style' = [style EXCEPT !.visuals = preset]
        /\ ret' = [op |-> "Reset visuals", before |-> style.visuals]
        /\ edits' = 0
        /\ UNCHANGED sliders

\* A widget runs style.interact(&response).
CallInteract(response) ==
    /\ Idle
    /\ ret' = [op |-> "interact", response |-> response,
               out |-> Style_interact(style, response)]
    /\ UNCHANGED <<style, edits, sliders>>

\* A widget runs style.interact_selectable(&response, selected).
CallInteractSelectable(response, selected) ==
    /\ Idle
    /\ ret' = [op |-> "interact_selectable", response |-> response,
               selected |-> selected,
               out |-> Style_interact_selectable(style, response, selected)]
    /\ UNCHANGED <<style, edits, sliders>>

NextInteract ==
    \/ \E e \in WidgetFields, c \in Palette : WidgetVisualsUi(e, "bg_fill", c)
    \/ \E e \in WidgetFields, c \in Palette : WidgetVisualsUi(e, "weak_bg_fill", c)
    \/ \E e \in WidgetFields, s \in Strokes : WidgetVisualsUi(e, "bg_stroke", s)
    \/ \E e \in WidgetFields, c \in CornerRadii : WidgetVisualsUi(e, "corner_radius", c)
    \/ \E e \in WidgetFields, s \in Strokes : WidgetVisualsUi(e, "fg_stroke", s)
    \/ \E e \in WidgetFields, x \in Expansions : WidgetVisualsUi(e, "expansion", x)
    \/ \E c \in Palette : SelectionUi("bg_fill", c)
    \/ \E s \in Strokes : SelectionUi("stroke", s)
    \/ ResetVisuals
    \/ \E r \in Responses : CallInteract(r)
    \/ \E r \in Responses, selected \in BOOLEAN : CallInteractSelectable(r, selected)

\* Widget-visuals resolution over the presets and their edits.
SpecInteract == Init /\ [][NextInteract]_vars

\* ------------------------------------------------- the accessors of Visuals
\* Saturating `as u8` cast of a non-negative whole number.
AsU8(x) == IF x > 255 THEN 255 ELSE x

\* Color32::gamma_multiply(factor) with the factor in tenths: each component
\* is (c as f32 * factor + 0.5) as u8.
gamma_multiply(color, factor) ==
    [i \in 1..4 |-> AsU8((color[i] * factor + 5) \div 10)]

\* ecolor::tint_color_towards(color, target)
tint_color_towards(color, target) ==
    LET a == color[4]
        div == (2 * 255) \div a
    IN  IF a = 0
        THEN <<color[1] \div 2, color[2] \div 2, color[3] \div 2, a>>
        ELSE IF a < 170
        THEN <<(color[1] \div 2 + target[1] \div div) % 256,
               (color[2] \div 2 + target[2] \div div) % 256,
               (color[3] \div 2 + target[3] \div div) % 256,
               a \div 2>>
        ELSE <<color[1] \div 2 + target[1] \div 2,
               color[2] \div 2 + target[2] \div 2,
               color[3] \div 2 + target[3] \div 2,
               a>>

\* WidgetVisuals::text_color
WidgetVisuals_text_color(self) == self.fg_stroke.color

\* Faulty variant of Visuals::text_color: the widget color hides the override.
Visuals_text_color_widget_first(self) ==
    WidgetVisuals_text_color(self.widgets.noninteractive)

\* Visuals::text_color
Visuals_text_color(self) ==
    IF IsSome(self.override_text_color)
    THEN Unwrap(self.override_text_color)
    ELSE WidgetVisuals_text_color(self.widgets.noninteractive)

\* Faulty variant of Visuals::weak_text_color: the alpha is applied to the
\* explicit color as well.
Visuals_weak_text_color_always_scaled(self) ==
    gamma_multiply(IF IsSome(self.weak_text_color)
                   THEN Unwrap(self.weak_text_color)
                   ELSE Visuals_text_color(self),
                   self.weak_text_alpha)

\* Visuals::weak_text_color
Visuals_weak_text_color(self) ==
    IF IsSome(self.weak_text_color)
    THEN Unwrap(self.weak_text_color)
    ELSE gamma_multiply(Visuals_text_color(self), self.weak_text_alpha)

\* Faulty variant of Visuals::strong_text_color: it honours the override.
Visuals_strong_text_color_overridable(self) ==
    IF IsSome(self.override_text_color)
    THEN Unwrap(self.override_text_color)
    ELSE WidgetVisuals_text_color(self.widgets.active)

\* Visuals::strong_text_color
Visuals_strong_text_color(self) == WidgetVisuals_text_color(self.widgets.active)

\* Visuals::text_edit_bg_color
Visuals_text_edit_bg_color(self) ==
    IF IsSome(self.text_edit_bg_color)
    THEN Unwrap(self.text_edit_bg_color)
    ELSE self.extreme_bg_color

\* Faulty variant of Visuals::disable: dark themes are faded twice.
Visuals_disable_theme_aware(self, color) ==
    IF self.dark_mode
    THEN gamma_multiply(gamma_multiply(color, self.disabled_alpha),
                        self.disabled_alpha)
    ELSE gamma_multiply(color, self.disabled_alpha)

\* Visuals::disable
Visuals_disable(self, color) == gamma_multiply(color, self.disabled_alpha)

\* Visuals::gray_out
Visuals_gray_out(self, color) ==
    tint_color_towards(color, self.widgets.noninteractive.weak_bg_fill)

\* ------------------------------------------------- the text-color machine
\* Colors the color pickers of the color sections are set to in this model.
TextPalette == {from_rgb(255, 0, 0), <<40, 80, 120, 160>>}

\* Values the alpha DragValue and Slider (range 0..=1) are set to, in tenths.
Alphas == {3, 10}

\* A write to the visuals made by the host or by Visuals::ui.
WriteVisuals(new) ==
    /\ edits < MaxAccessorEdits
    /\ new # style.visuals
    /\ Write([style EXCEPT !.visuals = new])

\* ui_optional_color of Visuals::ui: with the checkbox unset the option is
\* cleared; with it set an empty option takes default_value and a filled one
\* takes the color the picker is set to.
ui_optional_color(color, default_value, set, picked) ==
    IF ~set THEN None
    ELSE IF IsSome(color) THEN Some(picked)
    ELSE Some(default_value)

\* The host writes the public field override_text_color (Visuals::ui leaves
\* the field alone).
SetOverrideTextColor(v) ==
    WriteVisuals([style.visuals EXCEPT !.override_text_color = v])

\* The host writes the public field dark_mode.
SetDarkMode(b) ==
    WriteVisuals([style.visuals EXCEPT !.dark_mode = b])

\* Visuals::ui, "Text color": ui_text_color on widgets.<entry>.fg_stroke.color.
TextColorUi(entry, c) ==
    WriteVisuals([style.visuals EXCEPT !.widgets[entry].fg_stroke.color = c])

\* Visuals::ui, "Weak text alpha": enabled while weak_text_color is None.
WeakTextAlphaUi(a) ==
    /\ ~IsSome(style.visuals.weak_text_color)
    /\ WriteVisuals([style.visuals EXCEPT !.weak_text_alpha = a])

\* Visuals::ui, "Weak text color".
WeakTextColorUi(set, picked) ==
    WriteVisuals([style.visuals EXCEPT !.weak_text_color =
        ui_optional_color(@,
            WidgetVisuals_text_color(style.visuals.widgets.noninteractive),
            set, picked)])

\* Visuals::ui, "Background colors": ui_color on extreme_bg_color.
ExtremeBgColorUi(c) ==
    WriteVisuals([style.visuals EXCEPT !.extreme_bg_color = c])

\* Visuals::ui, "Background colors": the optional TextEdit color.
TextEditBgColorUi(set, picked) ==
    WriteVisuals([style.visuals EXCEPT !.text_edit_bg_color =
        ui_optional_color(@, style.visuals.extreme_bg_color, set, picked)])

\* Visuals::ui, "Misc": the disabled_alpha Slider.
DisabledAlphaUi(a) ==
    WriteVisuals([style.visuals EXCEPT !.disabled_alpha = a])

\* Visuals::ui, "Widgets": WidgetVisuals::ui on weak_bg_fill of an entry.
WeakBgFillUi(entry, c) ==
    WriteVisuals([style.visuals EXCEPT !.widgets[entry].weak_bg_fill = c])

\* A caller asks the visuals for one of its derived colors.
CallTextColor ==
    /\ Idle
    /\ ret' = [op |-> "text_color", out |-> Visuals_text_color(style.visuals)]
    /\ UNCHANGED <<style, edits, sliders>>

CallWeakTextColor ==
    /\ Idle
    /\ ret' = [op |-> "weak_text_color",
               out |-> Visuals_weak_text_color(style.visuals)]
    /\ UNCHANGED <<style, edits, sliders>>

CallStrongTextColor ==
    /\ Idle
    /\ ret' = [op |-> "strong_text_color",
               out |-> Visuals_strong_text_color(style.visuals)]
    /\ UNCHANGED <<style, edits, sliders>>

CallTextEditBgColor ==
    /\ Idle
    /\ ret' = [op |-> "text_edit_bg_color",
               out |-> Visuals_text_edit_bg_color(style.visuals)]
    /\ UNCHANGED <<style, edits, sliders>>

CallDisable(color) ==
    /\ Idle
    /\ ret' = [op |-> "disable", color |-> color,
               out |-> Visuals_disable(style.visuals, color)]
    /\ UNCHANGED <<style, edits, sliders>>

CallGrayOut(color) ==
    /\ Idle
    /\ ret' = [op |-> "gray_out", color |-> color,
               out |-> Visuals_gray_out(style.visuals, color)]
    /\ UNCHANGED <<style, edits, sliders>>

NextVisuals ==
    \/ \E c \in TextPalette : SetOverrideTextColor(Some(c))
    \/ SetOverrideTextColor(None)
    \/ \E b \in BOOLEAN : SetDarkMode(b)
    \/ \E e \in {"noninteractive", "inactive", "hovered", "active"},
          c \in TextPalette : TextColorUi(e, c)
    \/ \E a \in Alphas : WeakTextAlphaUi(a)
    \/ \E set \in BOOLEAN, c \in TextPalette : WeakTextColorUi(set, c)
    \/ \E c \in TextPalette : ExtremeBgColorUi(c)
    \/ \E set \in BOOLEAN, c \in TextPalette : TextEditBgColorUi(set, c)
    \/ \E a \in Alphas : DisabledAlphaUi(a)
    \/ \E c \in TextPalette : WeakBgFillUi("noninteractive", c)
    \/ ResetVisuals
    \/ CallTextColor
    \/ CallWeakTextColor
    \/ CallStrongTextColor
    \/ CallTextEditBgColor
    \/ \E c \in TextPalette : CallDisable(c)
    \/ \E c \in TextPalette : CallGrayOut(c)
    \/ \E r \in Responses : CallInteract(r)
    \/ \E r \in Responses, selected \in BOOLEAN : CallInteractSelectable(r, selected)

\* The derived colors of Visuals over the presets and their edits.
SpecVisuals == Init /\ [][NextVisuals]_vars

\* ----------------------------------------------------- the scroll machine
\* Faulty variant of ScrollStyle::allocated_width: floating bars are given the
\* room of solid ones.
ScrollStyle_allocated_width_always_sum(self) ==
    self.bar_inner_margin + self.bar_width + self.bar_outer_margin

\* ScrollStyle::allocated_width
ScrollStyle_allocated_width(self) ==
    IF self.floating
    THEN self.floating_allocated_width
    ELSE self.bar_inner_margin + self.bar_width + self.bar_outer_margin

\* f32::clamp(self, min, max)
clamp(x, min, max) == IF x < min THEN min ELSE IF x > max THEN max ELSE x

\* Duration in milliseconds of an animated scroll over `distance` points:
\* distance / points_per_second, clamped into the duration range.  A finite
\* distance over an infinite speed is zero.  The inputs of this model make the
\* quotient a whole number of milliseconds.
animation_duration(self, distance) ==
    clamp(IF self.points_per_second.inf
          THEN 0
          ELSE (distance * 1000) \div self.points_per_second.val,
          self.duration.min, self.duration.max)

\* Values the DragValues of ScrollStyle::details_ui (range 0..=32) are set to,
\* in tenths of a point.
ScrollWidths == {0, 50, 320}

\* Fixed durations a host asks for, in milliseconds.
Durations == {0, 200, 500}

\* Speeds the points/second DragValue (range 0..=5000) is set to.
Speeds == {500, 5000}

\* Scroll distances in points.
Distances == {0, 50, 200, 1000}

\* ScrollStyle::ui: a preset is selected.
ScrollStylePreset(preset) ==
    /\ edits < MaxEdits
    /\ style.spacing.scroll # preset
    /\ Write([style EXCEPT !.spacing.scroll = preset])

\* ScrollStyle::details_ui: one control is used.  The two floating widths are
\* offered for floating bars only, the inner margin for solid bars only.
ScrollDetailsUi(field, value) ==
    /\ edits < MaxEdits
    /\ field \in {"floating", "bar_width", "floating_width",
                 "floating_allocated_width", "bar_outer_margin",
                 "bar_inner_margin"}
    /\ field \in {"floating_width", "floating_allocated_width"} =>
           style.spacing.scroll.floating
    /\ field = "bar_inner_margin" => ~style.spacing.scroll.floating
    /\ style.spacing.scroll[field] # value
    /\ Write([style EXCEPT !.spacing.scroll[field] = value])

\* The host writes the public field scroll_animation.
SetScrollAnimation(v) ==
    /\ edits < MaxEdits
    /\ style.scroll_animation # v
    /\ Write([style EXCEPT !.scroll_animation = v])

\* ScrollAnimation::ui: the points/second DragValue.
ScrollAnimationSpeedUi(v) ==
    /\ edits < MaxEdits
    /\ style.scroll_animation.points_per_second # Finite(v)
    /\ Write([style EXCEPT !.scroll_animation.points_per_second = Finite(v)])

\* Layout asks how much room the scroll bar takes.
CallAllocatedWidth ==
    /\ Idle
    /\ ret' = [op |-> "allocated_width",
               out |-> ScrollStyle_allocated_width(style.spacing.scroll)]
    /\ UNCHANGED <<style, edits, sliders>>

\* A programmatic scroll over `distance` points starts.
CallAnimationDuration(distance) ==
    /\ Idle
    /\ ret' = [op |-> "animation_duration", distance |-> distance,
               out |-> animation_duration(style.scroll_animation, distance)]
    /\ UNCHANGED <<style, edits, sliders>>

NextScroll ==
    \/ \E p \in {ScrollStyle_solid, ScrollStyle_thin, ScrollStyle_floating} :
          ScrollStylePreset(p)
    \/ \E b \in BOOLEAN : ScrollDetailsUi("floating", b)
    \/ \E w \in ScrollWidths : ScrollDetailsUi("bar_width", w)
    \/ \E w \in ScrollWidths : ScrollDetailsUi("floating_width", w)
    \/ \E w \in ScrollWidths : ScrollDetailsUi("floating_allocated_width", w)
    \/ \E w \in ScrollWidths : ScrollDetailsUi("bar_outer_margin", w)
    \/ \E w \in ScrollWidths : ScrollDetailsUi("bar_inner_margin", w)
    \/ SetScrollAnimation(ScrollAnimation_none)
    \/ \E t \in Durations : SetScrollAnimation(ScrollAnimation_duration(t))
    \/ SetScrollAnimation(ScrollAnimation_default)
    \/ \E v \in Speeds : ScrollAnimationSpeedUi(v)
    \/ CallAllocatedWidth
    \/ \E d \in Distances : CallAnimationDuration(d)

\* Scroll-bar layout and scroll animation over the presets and their edits.
SpecScroll == Init /\ [][NextScroll]_vars

\* -------------------------------------------------- the formatter machine
\* Addresses an Arc allocation can be given.
Ptrs == 1..MaxAllocs

\* Callables a host wraps in a NumberFormatter.
Fns == {"emath::format_with_decimals_in_range", "custom"}

\* Faulty variant of PartialEq for NumberFormatter: the wrapped functions are
\* compared.
NumberFormatter_eq_by_function(self, other) == self.fn = other.fn

\* impl PartialEq for NumberFormatter: Arc::ptr_eq
NumberFormatter_eq(self, other) == self.ptr = other.ptr

\* derive(PartialEq) on Style: field by field, each with its own PartialEq.
Style_eq(self, other) ==
    /\ \A f \in DOMAIN self \ {"number_formatter"} : self[f] = other[f]
    /\ NumberFormatter_eq(self.number_formatter, other.number_formatter)

\* Allocations in use: the one held by the host's style (results of earlier
\* calls have been dropped when the next call is made).
Live == {style.number_formatter.ptr}

\* The host installs NumberFormatter::new(fn): the new Arc is allocated while
\* the old one is still held.
SetNumberFormatter(fn) ==
    /\ edits < MaxEdits
    /\ \E p \in Ptrs \ Live :
           Write([style EXCEPT !.number_formatter = NumberFormatter_new(p, fn)])

\* style.clone(): derive(Clone) copies every field, the Arc by reference.
CallStyleClone ==
    /\ Idle
    /\ ret' = [op |-> "Style::clone", out |-> style]
    /\ UNCHANGED <<style, edits, sliders>>

\* style.number_formatter.clone()
CallNumberFormatterClone ==
    /\ Idle
    /\ ret' = [op |-> "NumberFormatter::clone", out |-> style.number_formatter]
    /\ UNCHANGED <<style, edits, sliders>>

\* Style::default() is called again, next to the host's style.
CallStyleDefault ==
    /\ Idle
    /\ \E p \in Ptrs \ Live :
           ret' = [op |-> "Style::default", out |-> Style_default_at(p)]
    /\ UNCHANGED <<style, edits, sliders>>

\* NumberFormatter::new(fn) is called next to the host's style.
CallNumberFormatterNew(fn) ==
    /\ Idle
    /\ \E p \in Ptrs \ Live :
           ret' = [op |-> "NumberFormatter::new",
                   out |-> NumberFormatter_new(p, fn)]
    /\ UNCHANGED <<style, edits, sliders>>

NextFormatter ==
    \/ \E fn \in Fns : SetNumberFormatter(fn)
    \/ \E v \in {None} \cup {Some(f) : f \in FontIds} : SetOverrideFontId(v)
    \/ \E v \in {None} \cup {Some(k) : k \in TextStyles} : SetOverrideTextStyle(v)
    \/ CallStyleClone
    \/ CallNumberFormatterClone
    \/ CallStyleDefault
    \/ \E fn \in Fns : CallNumberFormatterNew(fn)

\* Equality of styles and formatters over the styles a host can build.
SpecFormatter == Init /\ [][NextFormatter]_vars

\* ------------------------------------------------ the persistence machine
\* Fields of Style marked serde(skip).
SkippedFields == {"number_formatter"}

\* Faulty variant of the derived Serialize of Style: the visuals are skipped
\* as well.
Style_serialize_skip_visuals(self) ==
    [f \in DOMAIN self \ (SkippedFields \cup {"visuals"}) |-> self[f]]

\* derive(Serialize) on Style: a map from the name of every field that is not
\* skipped to its value.
Style_serialize(self) == [f \in DOMAIN self \ SkippedFields |-> self[f]]

\* derive(Deserialize) on Style with serde(default): a Style::default() is
\* built (its formatter allocated at `ptr`); a skipped field keeps the default
\* even if the data names it, every other field is taken from the data when
\* present and keeps the default otherwise.
Style_deserialize(data, ptr) ==
    LET default == Style_default_at(ptr)
    IN  [f \in DOMAIN default |->
            IF f \in SkippedFields THEN default[f]
            ELSE IF f \in DOMAIN data THEN data[f]
            ELSE default[f]]

\* Persisted data written by a version of the program that lacked `dropped`.
WithoutFields(data, dropped) == [f \in DOMAIN data \ dropped |-> data[f]]

\* Sets of fields that persisted data may lack in this model.
AbsentFieldSets == SUBSET {"override_font_id", "visuals", "scroll_animation"}

\* The style is saved, the data loses `dropped`, and the data is loaded.
CallRoundTrip(dropped) ==
    /\ Idle
    /\ \E p \in Ptrs \ Live :
           LET data == WithoutFields(Style_serialize(style), dropped)
           IN  ret' = [op |-> "round_trip", dropped |-> dropped,
                       data |-> data, out |-> Style_deserialize(data, p)]
    /\ UNCHANGED <<style, edits, sliders>>

NextPersist ==
    \/ \E fn \in Fns : SetNumberFormatter(fn)
    \/ \E v \in {None} \cup {Some(f) : f \in FontIds} : SetOverrideFontId(v)
    \/ \E b \in BOOLEAN : SetDarkMode(b)
    \/ SetScrollAnimation(ScrollAnimation_none)
    \/ \E d \in AbsentFieldSets : CallRoundTrip(d)

\* Saving and loading the styles a host can build.
SpecPersist == Init /\ [][NextPersist]_vars

\* ------------------------------------------------ the shared-style machine
\* Threads that hold a shared reference to the host's style.
Threads == 1..MaxThreads

\* NumberFormatter::format(value, decimals): the wrapped callable applied to
\* the arguments.
NumberFormatter_format(self, value) == [apply |-> self.fn, value |-> value]

\* The resolution calls a thread makes in this model.
SharedCalls ==
    {[fn |-> "TextStyle::resolve", key |-> TextStyle_Body],
     [fn |-> "FontSelection::resolve", selection |-> FontSelection_Default],
     [fn |-> "interact", response |-> [interactive |-> TRUE,
          is_pointer_button_down_on |-> FALSE, has_focus |-> FALSE,
          clicked |-> FALSE, hovered |-> TRUE, highlighted |-> FALSE]],
     [fn |-> "interact_selectable", selected |-> TRUE,
      response |-> [interactive |-> TRUE,
          is_pointer_button_down_on |-> FALSE, has_focus |-> TRUE,
          clicked |-> FALSE, hovered |-> FALSE, highlighted |-> FALSE]],
     [fn |-> "weak_text_color"],
     [fn |-> "format", value |-> 15]}

\* What a call returns on the style `self`.
Apply(call, self) ==
    CASE call.fn = "TextStyle::resolve" -> TextStyle_resolve(call.key, self)
      [] call.fn = "FontSelection::resolve" ->
             FontSelection_resolve(call.selection, self)
      [] call.fn = "interact" ->
             [ref |-> Style_interact(self, call.response),
              target |-> Deref(self, Style_interact(self, call.response))]
      [] call.fn = "interact_selectable" ->
             Style_interact_selectable(self, call.response, call.selected)
      [] call.fn = "weak_text_color" ->
             [color |-> Visuals_weak_text_color(self.visuals)]
      [] call.fn = "format" ->
             NumberFormatter_format(self.number_formatter, call.value)

\* The part of the style a call reads next, given what it has read into
\* `view` so far (`read` lists the parts already read), or "return" when it
\* has all it needs.
NextRead(call, view, read) ==
    LET has(part) == \E i \in 1..Len(read) : read[i] = part
    IN  CASE call.fn = "TextStyle::resolve" ->
                 IF has("text_styles") THEN "return" ELSE "text_styles"
          [] call.fn = "FontSelection::resolve" ->
                 IF ~has("override_font_id") THEN "override_font_id"
                 ELSE IF IsSome(view.override_font_id) THEN "return"
                 ELSE IF ~has("override_text_style") THEN "override_text_style"
                 ELSE IF ~has("text_styles") THEN "text_styles"
                 ELSE "return"
          [] call.fn = "interact" ->
                 IF has("visuals") THEN "return" ELSE "visuals"
          [] call.fn = "interact_selectable" ->
                 IF has("visuals") THEN "return" ELSE "visuals"
          [] call.fn = "weak_text_color" ->
                 IF has("visuals") THEN "return" ELSE "visuals"
          [] call.fn = "format" ->
                 IF has("number_formatter") THEN "return" ELSE "number_formatter"

\* Faulty variant of a read through the shared reference: reading the font
\* override takes it out of the style.
StyleAfterRead_taking(self, part) ==
    IF part = "override_font_id" THEN [self EXCEPT !.override_font_id = None]
    ELSE self

\* The style after a part of it was read through `&Style`: as it was.
StyleAfterRead(self, part) == self

\* The host hands a shared reference to the threads; none has started a call.
Share ==
    /\ Idle
    /\ ret' = [op |-> "shared", before |-> style,
               th |-> [t \in Threads |-> [pc |-> "idle"]]]
    /\ UNCHANGED <<style, edits, sliders>>

\* Thread t starts a call.
ThreadCall(t, call) ==
    /\ ret.op = "shared"
    /\ ret.th[t].pc = "idle"
    /\ ret' = [ret EXCEPT !.th[t] =
                  [pc |-> "running", call |-> call, view |-> Style_default,
                   read |-> <<>>]]
    /\ UNCHANGED <<style, edits, sliders>>

\* Thread t reads the next part of the style its call needs.
ThreadRead(t) ==
    /\ ret.op = "shared"
    /\ ret.th[t].pc = "running"
    /\ LET f == ret.th[t]
           part == NextRead(f.call, f.view, f.read)
       IN  /\ part # "return"
           /\ ret' = [ret EXCEPT !.th[t] =
                         [f EXCEPT !.view = [@ EXCEPT ![part] = style[part]],
                                   !.read = Append(@, part)]]
           /\ style' = StyleAfterRead(style, part)
    /\ UNCHANGED <<edits, sliders>>

\* Thread t's call returns, computed from what it read.
ThreadReturn(t) ==
    /\ ret.op = "shared"
    /\ ret.th[t].pc = "running"
    /\ LET f == ret.th[t]
       IN  /\ NextRead(f.call, f.view, f.read) = "return"
           /\ ret' = [ret EXCEPT !.th[t] =
                         [pc |-> "done", call |-> f.call,
                          out |-> Apply(f.call, f.view)]]
    /\ UNCHANGED <<style, edits, sliders>>

\* Every thread has returned and the shared reference is given back.
Join ==
    /\ ret.op = "shared"
    /\ \A t \in Threads : ret.th[t].pc = "done"
    /\ ret' = NoCall
    /\ UNCHANGED <<style, edits, sliders>>

NextShared ==
    \/ Idle /\ \E v \in {None, Some(FontId_default)} : SetOverrideFontId(v)
    \/ Idle /\ \E v \in {None, Some(TextStyle_Heading)} : SetOverrideTextStyle(v)
    \/ Idle /\ RemoveTextStyle(TextStyle_Body)
    \/ Share
    \/ \E t \in Threads, call \in SharedCalls : ThreadCall(t, call)
    \/ \E t \in Threads : ThreadRead(t)
    \/ \E t \in Threads : ThreadReturn(t)
    \/ Join

\* Threads resolving concurrently on one shared style.
SpecShared == Init /\ [][NextShared]_vars

\* ------------------------------------------------- the text-styles machine
\* Keys a host inserts or removes: the built-in ones and two user-defined
\* names, the first spelled before the second.
MapKeys == BuiltinTextStyles \cup {TextStyle_Name(1), TextStyle_Name(2)}

\* A caller runs style.text_styles().
CallTextStyles ==
    /\ Idle
    /\ ret' = [op |-> "text_styles", out |-> Style_text_styles(style)]
    /\ UNCHANGED <<style, edits, sliders>>

NextTextStyles ==
    \/ \E k \in MapKeys, f \in FontIds : InsertTextStyle(k, f)
    \/ \E k \in MapKeys : RemoveTextStyle(k)
    \/ CallTextStyles

\* Enumeration of the text-styles map over the maps a host can build.
SpecTextStyles == Init /\ [][NextTextStyles]_vars

\* ------------------------------------------------- the style-editor machine
\* A write made by one control of Style::ui, or by the host before the editor
\* is shown.
EditorWrite(new) ==
    /\ edits < MaxEditorOps
    /\ new # style
    /\ Write(new)

\* The host adds a user-defined text style before the editor is shown.
HostInsertTextStyle(key, font_id) ==
    /\ key.variant = "Name"
    /\ key \notin DOMAIN style.text_styles
    /\ EditorWrite([style EXCEPT !.text_styles =
           [k \in DOMAIN style.text_styles \cup {key} |->
               IF k = key THEN font_id ELSE style.text_styles[k]]])

\* Style::ui, "Override font id": the radio buttons None and override.
OverrideFontIdUi(v) ==
    /\ v \in {None, Some(FontId_default)}
    /\ v = None \/ ~IsSome(style.override_font_id)
    /\ EditorWrite([style EXCEPT !.override_font_id = v])

\* The keys a combo box of Style::ui lists: text_styles() of the style the
\* editor is shown with, which is the edited style.
ListedTextStyles == Range(Style_text_styles(style))

\* Style::ui, "Override text style": None or one of the listed keys.
OverrideTextStyleUi(v) ==
    /\ v = None \/ (IsSome(v) /\ Unwrap(v) \in ListedTextStyles)
    /\ EditorWrite([style EXCEPT !.override_text_style = v])

\* Style::ui, "Text style of DragValue": one of the listed keys.
DragValueTextStyleUi(k) ==
    /\ k \in ListedTextStyles
    /\ EditorWrite([style EXCEPT !.drag_value_text_style = k])

\* text_styles_ui: font_id_ui on the FontId of an entry of the map.
FontIdUi(key, font_id) ==
    /\ key \in DOMAIN style.text_styles
    /\ EditorWrite([style EXCEPT !.text_styles[key] = font_id])

\* Faulty variant of "Reset text styles": the map is emptied.
ResetTextStyles_emptying ==
    /\ style.text_styles # default_text_styles
    /\ EditorWrite([style EXCEPT !.text_styles = <<>>])

\* text_styles_ui, "Reset text styles": enabled when the map differs from
\* default_text_styles(), it installs default_text_styles().
ResetTextStyles ==
    /\ style.text_styles # default_text_styles
    /\ EditorWrite([style EXCEPT !.text_styles = default_text_styles])

\* Style::ui, "Reset style": the style differs from every new
\* Style::default() by its formatter, so the button is enabled; it installs a
\* new Style::default().
ResetStyle ==
    /\ \E p \in Ptrs \ Live : style' = Style_default_at(p)
    /\ ret' = NoCall
    /\ edits' = 0
    /\ UNCHANGED sliders

\* A DragValue resolves its text style.
CallDragValueTextStyleResolve == CallTextStyleResolve(style.drag_value_text_style)

NextEditor ==
    \/ \E n \in 1..MaxNames, f \in FontIds : HostInsertTextStyle(TextStyle_Name(n), f)
    \/ \E v \in {None, Some(FontId_default)} : OverrideFontIdUi(v)
    \/ \E v \in {None} \cup {Some(k) : k \in TextStyles} : OverrideTextStyleUi(v)
    \/ \E k \in TextStyles : DragValueTextStyleUi(k)
    \/ \E k \in {TextStyle_Body} \cup {TextStyle_Name(n) : n \in 1..MaxNames},
          f \in FontIds : FontIdUi(k, f)
    \/ ResetTextStyles
    \/ ResetStyle
    \/ CallFontSelectionResolve(FontSelection_Default)
    \/ CallDragValueTextStyleResolve

\* The style editor over the styles a host hands to it.
SpecEditor == Init /\ [][NextEditor]_vars

\* --------------------------------------------------- the modifier machine
\* impl Default for StyleModifier: no function.
StyleModifier_default == None

\* impl From<Style> for StyleModifier: a function that assigns a clone of the
\* captured style.
StyleModifier_from(captured) == Some([assign |-> captured])

\* Faulty variant of StyleModifier::apply: only the visuals of the captured
\* style are written.
StyleModifier_apply_visuals_only(self, target) ==
    IF IsSome(self)
    THEN [target EXCEPT !.visuals = Unwrap(self).assign.visuals]
    ELSE target

\* StyleModifier::apply: the target after the call.
StyleModifier_apply(self, target) ==
    IF IsSome(self) THEN Unwrap(self).assign ELSE target

\* Styles that modifiers are built from in this model; their formatter was
\* allocated apart from the host's.
ModifierStyles ==
    {[Style_default_at(MaxAllocs) EXCEPT !.visuals = Visuals_light],
     [Style_default_at(MaxAllocs) EXCEPT !.override_font_id = Some(FontId_default)]}

\* The modifiers applied in this model.
Modifiers == {StyleModifier_default} \cup {StyleModifier_from(s) : s \in ModifierStyles}

\* modifier.apply(&mut style).  The record of the call keeps the style as it
\* was and the style of the last Style-built modifier applied since the
\* host's last write.
ApplyModifier(modifier) ==
    /\ edits < MaxEdits
    /\ style' = StyleModifier_apply(modifier, style)
    /\ ret' = [op |-> "apply", modifier |-> modifier, before |-> style,
               last |-> IF IsSome(modifier) THEN Some(Unwrap(modifier).assign)
                        ELSE IF ret.op = "apply" THEN ret.last
                        ELSE None]
    /\ edits' = edits + 1
    /\ UNCHANGED sliders

NextModifier ==
    \/ \E m \in Modifiers : ApplyModifier(m)
    \/ \E v \in {None} \cup {Some(f) : f \in FontIds} : SetOverrideFontId(v)
    \/ \E k \in TextStyles : RemoveTextStyle(k)

\* Style modifiers applied to the styles a host can build.
SpecModifier == Init /\ [][NextModifier]_vars

\* ------------------------------------------------ the corner-radius machine
\* The corners are u8.
U8_MAX == 255

\* CornerRadius::is_same.
CornerRadius_is_same(self) ==
    self.nw = self.ne /\ self.nw = self.sw /\ self.nw = self.se

\* CornerRadius::average, an f32, in quarters: the sum of the corners over 4.
CornerRadius_average(self) == self.nw + self.ne + self.sw + self.se

\* impl From<f32> for CornerRadius, of a radius in quarters: the nearest u8,
\* a half going up, on every corner.
CornerRadius_from(radius) ==
    LET rounded == (radius + 2) \div 4
    IN  CornerRadius_same(IF rounded > U8_MAX THEN U8_MAX ELSE rounded)

\* Faulty variant of the last step of the widget: the se corner is decreased
\* whatever the corners hold.
CornerRadius_apply_checkbox_decreasing(self, same) ==
    IF same THEN [value |-> CornerRadius_from(CornerRadius_average(self)),
                  underflow |-> FALSE]
    ELSE IF CornerRadius_is_same(self)
    THEN [value |-> [self EXCEPT !.se = (self.se - 1) % (U8_MAX + 1)],
          underflow |-> self.se < 1]
    ELSE [value |-> self, underflow |-> FALSE]

\* "Apply the checkbox", the last step of the widget: the corners after it,
\* and whether the u8 subtraction went below 0 (where a build without
\* overflow checks wraps and one with them panics).
CornerRadius_apply_checkbox(self, same) ==
    IF same THEN [value |-> CornerRadius_from(CornerRadius_average(self)),
                  underflow |-> FALSE]
    ELSE IF CornerRadius_is_same(self)
    THEN IF CornerRadius_average(self) = 0
         THEN [value |-> [self EXCEPT !.se = 1], underflow |-> FALSE]
         ELSE [value |-> [self EXCEPT !.se = (self.se - 1) % (U8_MAX + 1)],
               underflow |-> self.se < 1]
    ELSE [value |-> self, underflow |-> FALSE]

\* Values a DragValue of the widget is dragged to: both ends of the u8 range,
\* 1, and the value of the nw corner.
DraggedTo(self) == {0, 1, U8_MAX, self.nw}

\* The corners after the widgets of one pass, before the checkbox is applied.
\* With equal corners there is one DragValue, on a copy of nw, and
\* CornerRadius::same of it is stored; otherwise there is one DragValue per
\* corner, and the pointer drags at most one of them in a pass.
CornerRadius_edited(self) ==
    IF CornerRadius_is_same(self)
    THEN {CornerRadius_same(cr) : cr \in {self.nw} \cup DraggedTo(self)}
    ELSE {self} \cup
         {[self EXCEPT ![corner] = v] :
              corner \in {"nw", "ne", "sw", "se"}, v \in DraggedTo(self)}

\* One pass of <&mut CornerRadius as Widget>::ui on
\* style.visuals.window_corner_radius, as Visuals::ui adds it.  `same` is the
\* checkbox as the pass leaves it: set from is_same and toggled by a click.
CornerRadiusUi(click) ==
    /\ edits < MaxCornerPasses
    /\ LET self == style.visuals.window_corner_radius
           same == IF click THEN ~CornerRadius_is_same(self)
                   ELSE CornerRadius_is_same(self)
       IN  \E edited \in CornerRadius_edited(self) :
               LET applied == CornerRadius_apply_checkbox(edited, same)
               IN  /\ style' = [style EXCEPT
                                    !.visuals.window_corner_radius = applied.value]
                   /\ ret' = [op |-> "CornerRadius::ui", same |-> same,
                              edited |-> edited,
                              underflow |-> applied.underflow]
    /\ edits' = edits + 1
    /\ UNCHANGED sliders

NextCornerRadius == \E click \in BOOLEAN : CornerRadiusUi(click)

\* Passes of the corner-radius editor on the window corner radius of a theme.
SpecCornerRadius == Init /\ [][NextCornerRadius]_vars

\* ------------------------------------------------------ the sliders machine
\* Linear sliders are held within this distance of zero.
LinearLimit == 100000

\* Faulty variant of the type range: logarithmic is looked at first.
TypeRange_logarithmic_first(integer, logarithmic) ==
    IF logarithmic THEN <<F64_NEG_INFINITY, F64_INFINITY>>
    ELSE IF integer THEN <<I32_as_f64(I32_MIN), I32_as_f64(I32_MAX)>>
    ELSE <<Num(-LinearLimit, 0), Num(LinearLimit, 0)>>

\* (type_min, type_max) of Sliders::ui.
TypeRange(integer, logarithmic) ==
    IF integer THEN <<I32_as_f64(I32_MIN), I32_as_f64(I32_MAX)>>
    ELSE IF logarithmic THEN <<F64_NEG_INFINITY, F64_INFINITY>>
    ELSE <<Num(-LinearLimit, 0), Num(LinearLimit, 0)>>

\* What the user does in one pass: nothing, or one interaction with one of
\* the widgets that the range, the cast or the step depend on.  A slider may
\* leave any value of its type; the range sliders leave an end of their range
\* or a value in every range.
I32Samples == {I32_MIN, -7, I32_MAX}
F64Samples == {Num(-7, 500), Beyond(1, FALSE), F64_NEG_INFINITY}
StepSamples == {Num(1, 0), Num(0, 500)}
Events ==
    {[widget |-> "none"], [widget |-> "Assign PI"], [widget |-> "Use steps"],
     [widget |-> "Logarithmic"], [widget |-> "Reset"]}
    \cup {[widget |-> "i32 demo slider", to |-> i] : i \in I32Samples}
    \cup {[widget |-> "f64 demo slider", to |-> x] : x \in F64Samples}
    \cup {[widget |-> w, at_end |-> b] : w \in {"left", "right"}, b \in BOOLEAN}
    \cup {[widget |-> "step", to |-> x] : x \in StepSamples}
    \cup {[widget |-> "type", integer |-> b] : b \in BOOLEAN}

\* <Sliders as View>::ui: one pass.  The record of the pass keeps the demo as
\* the pass found it, min and max as clamped, and the step handed to the
\* slider.
SlidersUi(event) ==
    LET self == sliders
        type_range == TypeRange(self.integer, self.logarithmic)
        type_min == type_range[1]
        type_max == type_range[2]
        min == F64_clamp(self.min, type_min, type_max)
        max == F64_clamp(self.max, type_min, type_max)
        istep == IF self.use_steps THEN self.step ELSE Num(0, 0)
        value_i32 == IF event.widget = "i32 demo slider" THEN event.to
                     ELSE F64_as_i32(self.value)
        value == IF self.integer THEN I32_as_f64(value_i32)
                 ELSE IF event.widget = "f64 demo slider" THEN event.to
                 ELSE IF event.widget = "Assign PI" THEN F64_PI
                 ELSE self.value
        left == IF event.widget = "left"
                THEN IF event.at_end THEN type_min ELSE Num(0, 0)
                ELSE min
        right == IF event.widget = "right"
                 THEN IF event.at_end THEN type_max ELSE Num(0, 0)
                 ELSE max
        use_steps == IF event.widget = "Use steps" THEN ~self.use_steps
                     ELSE self.use_steps
        step == IF event.widget = "step" THEN event.to ELSE self.step
        shown == [self EXCEPT
                      !.min = left, !.max = right, !.value = value,
                      !.use_steps = use_steps, !.step = step,
                      !.integer = IF event.widget = "type" THEN event.integer
                                  ELSE self.integer,
                      !.logarithmic = IF event.widget = "Logarithmic"
                                      THEN ~self.logarithmic
                                      ELSE self.logarithmic]
    IN  /\ event.widget = "i32 demo slider" => self.integer
        /\ event.widget \in {"f64 demo slider", "Assign PI"} => ~self.integer
        /\ event.widget = "step" => use_steps
        /\ event.widget = "Reset" => shown # Sliders_default
        /\ sliders' = IF event.widget = "Reset" THEN Sliders_default ELSE shown
        /\ ret' = [op |-> "Sliders::ui", before |-> self,
                   min |-> min, max |-> max, istep |-> istep]
        /\ UNCHANGED <<style, edits>>

NextSliders == \E event \in Events : SlidersUi(event)

\* Passes of the Sliders demo.
SpecSliders == Init /\ [][NextSliders]_vars

\* ------------------------------------------------------------------ claims
\* The three "is the pointer / keyboard on it" flags and the two "is it
\* pointed at" flags of a Response.
Engaged(r) == r.is_pointer_button_down_on \/ r.has_focus \/ r.clicked

PointedAt(r) == r.hovered \/ r.highlighted

\* C1: Widgets::style is a total classification with strict precedence: every
\* combination of the six flags gets exactly one of noninteractive, active,
\* hovered, inactive, the first whose condition matches in that order; an
\* interactive response that is focused and hovered is active, never hovered.
C1_StrictPrecedence ==
    ret.op = "interact" =>
        LET r == ret.response
        IN  /\ ret.out \in {"noninteractive", "active", "hovered", "inactive"}
            /\ (ret.out = "noninteractive") <=> ~r.interactive
            /\ (ret.out = "active") <=> (r.interactive /\ Engaged(r))
            /\ (ret.out = "hovered") <=>
                   (r.interactive /\ ~Engaged(r) /\ PointedAt(r))
            /\ (ret.out = "inactive") <=>
                   (r.interactive /\ ~Engaged(r) /\ ~PointedAt(r))
            /\ (r.interactive /\ r.has_focus /\ r.hovered) => ret.out = "active"

\* C1 witness: interact was called with an interactive response that is both
\* focused and hovered (and nothing else), and it chose active.
C1_Witness ==
    /\ ret.op = "interact"
    /\ ret.response = [interactive |-> TRUE, is_pointer_button_down_on |-> FALSE,
                       has_focus |-> TRUE, clicked |-> FALSE, hovered |-> TRUE,
                       highlighted |-> FALSE]
    /\ ret.out = "active"

\* C2: for a response that is not interactive, interact returns the
\* noninteractive entry itself, equal field for field to
\* visuals.widgets.noninteractive, whatever the other five flags are.
C2_NoninteractiveVerbatim ==
    (ret.op = "interact" /\ ~ret.response.interactive) =>
        /\ ret.out = Style_noninteractive(style)
        /\ Deref(style, ret.out) = style.visuals.widgets.noninteractive

\* C2 witness: a non-interactive response with all five other flags set was
\* resolved on a style whose noninteractive entry differs from its active one.
C2_Witness ==
    /\ ret.op = "interact"
    /\ ret.response = [interactive |-> FALSE, is_pointer_button_down_on |-> TRUE,
                       has_focus |-> TRUE, clicked |-> TRUE, hovered |-> TRUE,
                       highlighted |-> TRUE]
    /\ Deref(style, ret.out) = style.visuals.widgets.noninteractive
    /\ style.visuals.widgets.noninteractive # style.visuals.widgets.active

\* The four entries other than open.
ClassifiedFields == WidgetFields \ {"open"}

\* C3: the classifier never selects the open entry: interact never returns a
\* reference to Widgets::open, and what interact_selectable copies (unselected)
\* is one of the other four entries, hence not the open visuals whenever those
\* differ from the other four.
C3_NeverOpen ==
    /\ ret.op = "interact" => ret.out # "open"
    /\ (ret.op = "interact_selectable" /\ ~ret.selected) =>
           /\ \E e \in ClassifiedFields : ret.out = Deref(style, e)
           /\ (\A e \in ClassifiedFields : Deref(style, e) # Deref(style, "open"))
                  => ret.out # Deref(style, "open")

\* C3 witness: an idle interactive response (the last branch of the
\* classifier) was resolved by interact_selectable, unselected, on a style
\* whose open entry differs from the other four.
C3_Witness ==
    /\ ret.op = "interact_selectable"
    /\ ~ret.selected
    /\ ret.response.interactive /\ ~Engaged(ret.response) /\ ~PointedAt(ret.response)
    /\ \A e \in ClassifiedFields : Deref(style, e) # Deref(style, "open")
    /\ ret.out = style.visuals.widgets.inactive

\* C4: interact_selectable(response, true) has weak_bg_fill and bg_fill equal
\* to selection.bg_fill and fg_stroke equal to selection.stroke, while its
\* bg_stroke is the bg_stroke of interact(response).
C4_SelectedVisuals ==
    (ret.op = "interact_selectable" /\ ret.selected) =>
        /\ ret.out.weak_bg_fill = style.visuals.selection.bg_fill
        /\ ret.out.bg_fill = style.visuals.selection.bg_fill
        /\ ret.out.fg_stroke = style.visuals.selection.stroke
        /\ ret.out.bg_stroke =
               Deref(style, Style_interact(style, ret.response)).bg_stroke

\* C4 witness: a selected resolution in which the selection replaced both
\* fills and the foreground stroke of the classified entry, and in which the
\* kept bg_stroke differs from the selection stroke.
C4_Witness ==
    /\ ret.op = "interact_selectable"
    /\ ret.selected
    /\ LET unselected == Deref(style, Style_interact(style, ret.response))
       IN  /\ unselected.weak_bg_fill # ret.out.weak_bg_fill
           /\ unselected.bg_fill # ret.out.bg_fill
           /\ unselected.fg_stroke # ret.out.fg_stroke
           /\ ret.out.bg_stroke = unselected.bg_stroke
           /\ ret.out.bg_stroke # style.visuals.selection.stroke

\* C5: with override_font_id = Some(f), FontSelection::Default resolves to
\* exactly f, whatever override_text_style is (unset, a present key, a missing
\* key) and whatever text_styles holds (even without Body): no lookup is made,
\* so the resolution cannot fail.
C5_FontIdOverrideWins ==
    (/\ ret.op = "FontSelection::resolve"
     /\ ret.selection = FontSelection_Default
     /\ IsSome(style.override_font_id))
        => ret.out = Ok(Unwrap(style.override_font_id))

\* C5 witness: Default was resolved to the font-id override while the
\* text-style override named a key missing from text_styles.
C5_Witness ==
    /\ ret.op = "FontSelection::resolve"
    /\ ret.selection = FontSelection_Default
    /\ IsSome(style.override_font_id)
    /\ IsSome(style.override_text_style)
    /\ Unwrap(style.override_text_style) \notin DOMAIN style.text_styles
    /\ ret.out = Ok(Unwrap(style.override_font_id))

\* C6: with override_font_id = None, FontSelection::Default resolves as
\* TextStyle::resolve of override_text_style when that is set and as
\* TextStyle::Body.resolve when it is not: to the Body entry with no override,
\* to the overriding key's entry (not Body's) with a text-style override.
C6_TextStyleOverrideThenBody ==
    (/\ ret.op = "FontSelection::resolve"
     /\ ret.selection = FontSelection_Default
     /\ ~IsSome(style.override_font_id))
        => LET key == IF IsSome(style.override_text_style)
                      THEN Unwrap(style.override_text_style)
                      ELSE TextStyle_Body
           IN  /\ ret.out = TextStyle_resolve(key, style)
               /\ key \in DOMAIN style.text_styles
                      => ret.out = Ok(style.text_styles[key])

\* C6 witness: with only a text-style override set, Default resolved to that
\* key's FontId, which is not the one stored under Body.
C6_Witness ==
    /\ ret.op = "FontSelection::resolve"
    /\ ret.selection = FontSelection_Default
    /\ ~IsSome(style.override_font_id)
    /\ IsSome(style.override_text_style)
    /\ Unwrap(style.override_text_style) \in DOMAIN style.text_styles
    /\ TextStyle_Body \in DOMAIN style.text_styles
    /\ ret.out = Ok(style.text_styles[Unwrap(style.override_text_style)])
    /\ ret.out # Ok(style.text_styles[TextStyle_Body])


\* C7: TextStyle::resolve returns the FontId stored under the key when the key
\* is in text_styles; when it is absent it panics, naming the key and listing
\* the available keys, and never returns a substitute FontId; built-in and
\* Name(..) keys alike.
C7_ResolveOrPanic ==
    ret.op = "TextStyle::resolve" =>
        IF ret.key \in DOMAIN style.text_styles
        THEN ret.out = Ok(style.text_styles[ret.key])
        ELSE /\ ret.out.kind = "panic"
             /\ ret.out.missing = ret.key
             /\ Range(ret.out.available) = DOMAIN style.text_styles
             /\ Len(ret.out.available) = Cardinality(DOMAIN style.text_styles)

\* C7 witness: a built-in key absent from text_styles was resolved while Body
\* was present, and the call panicked.
C7_Witness ==
    /\ ret.op = "TextStyle::resolve"
    /\ ret.key \in BuiltinTextStyles
    /\ ret.key \notin DOMAIN style.text_styles
    /\ TextStyle_Body \in DOMAIN style.text_styles
    /\ ret.out.kind = "panic"

\* C8: an explicit selection wins over the style-wide overrides:
\* FontSelection::FontId(f) resolves to f and FontSelection::Style(k) to the
\* text_styles entry of k, whatever override_font_id and override_text_style
\* are.
C8_ExplicitSelectionWins ==
    ret.op = "FontSelection::resolve" =>
        /\ ret.selection.sel = "FontId" => ret.out = Ok(ret.selection.font_id)
        /\ ret.selection.sel = "Style" =>
               IF ret.selection.text_style \in DOMAIN style.text_styles
               THEN ret.out = Ok(style.text_styles[ret.selection.text_style])
               ELSE ret.out.kind = "panic"

\* C8 witness: with both overrides set, an explicit Style(k) resolved to k's
\* entry, which is neither the font-id override nor the entry of the
\* overriding text style.
C8_Witness ==
    /\ ret.op = "FontSelection::resolve"
    /\ ret.selection.sel = "Style"
    /\ IsSome(style.override_font_id)
    /\ IsSome(style.override_text_style)
    /\ Unwrap(style.override_text_style) \in DOMAIN style.text_styles
    /\ ret.selection.text_style \in DOMAIN style.text_styles
    /\ ret.out = Ok(style.text_styles[ret.selection.text_style])
    /\ ret.out # Ok(Unwrap(style.override_font_id))
    /\ ret.out # Ok(style.text_styles[Unwrap(style.override_text_style)])

\* C9: the default style, with either preset as visuals, has the five baseline
\* keys Small, Body, Monospace, Button and Heading in text_styles, so
\* TextStyle::resolve succeeds for each of them, for drag_value_text_style and
\* for FontSelection::Default.
C9_DefaultHasBaselineKeys ==
    edits = 0 =>
        /\ BuiltinTextStyles \subseteq DOMAIN style.text_styles
        /\ style.drag_value_text_style \in DOMAIN style.text_styles
        /\ (/\ ret.op = "TextStyle::resolve"
            /\ ret.key \in BuiltinTextStyles \cup {style.drag_value_text_style})
               => ret.out.kind = "ok"
        /\ (ret.op = "FontSelection::resolve" /\ ret.selection = FontSelection_Default)
               => ret.out.kind = "ok"

\* C9 witness: Monospace was resolved successfully on the unedited default
\* style carrying the light preset.
C9_Witness ==
    /\ edits = 0
    /\ ~style.visuals.dark_mode
    /\ ret.op = "TextStyle::resolve"
    /\ ret.key = TextStyle_Monospace
    /\ ret.out.kind = "ok"

\* C10: in both presets, Widgets::dark() and Widgets::light(), bg_fill of each
\* of the five entries is not Color32::TRANSPARENT, and neither is bg_fill of
\* what interact_selectable returns on either preset, both presets'
\* selection.bg_fill being non-transparent.
C10_PresetBgFillOpaque ==
    /\ \A w \in {Widgets_dark, Widgets_light} : \A e \in WidgetFields :
           w[e].bg_fill # Color32_TRANSPARENT
    /\ \A sel \in {Selection_dark, Selection_light} :
           sel.bg_fill # Color32_TRANSPARENT
    /\ edits = 0 =>
           /\ style.visuals.widgets \in {Widgets_dark, Widgets_light}
           /\ \A e \in WidgetFields :
                  style.visuals.widgets[e].bg_fill # Color32_TRANSPARENT
           /\ ret.op = "interact_selectable" =>
                  ret.out.bg_fill # Color32_TRANSPARENT

\* C10 witness: interact_selectable returned a selected copy on the unedited
\* light preset.
C10_Witness ==
    /\ edits = 0
    /\ style.visuals.widgets = Widgets_light
    /\ ret.op = "interact_selectable"
    /\ ret.selected
    /\ ret.out.bg_fill = Selection_light.bg_fill

\* C11: bg_fill of a WidgetVisuals is never Color32::TRANSPARENT: not in any
\* of the five entries of a style reached from a preset through
\* WidgetVisuals::ui, Selection::ui and "Reset visuals", and not in what
\* interact and interact_selectable return.
C11_BgFillNeverTransparent ==
    /\ \A e \in WidgetFields :
           style.visuals.widgets[e].bg_fill # Color32_TRANSPARENT
    /\ ret.op = "interact" => Deref(style, ret.out).bg_fill # Color32_TRANSPARENT
    /\ ret.op = "interact_selectable" => ret.out.bg_fill # Color32_TRANSPARENT

\* Values an optional color is given in the comparisons below.
OptionalColors == {None} \cup {Some(c) : c \in TextPalette}

\* C12: Visuals::text_color() returns override_text_color when it is set and
\* the noninteractive entry's fg_stroke.color otherwise; with the override set
\* the result is the same whatever fg_stroke color any widget entry has.
C12_TextColorOverrideElseNoninteractive ==
    ret.op = "text_color" =>
        LET v == style.visuals
        IN  IF IsSome(v.override_text_color)
            THEN /\ ret.out = Unwrap(v.override_text_color)
                 /\ \A e \in WidgetFields, c \in TextPalette :
                        Visuals_text_color(
                            [v EXCEPT !.widgets[e].fg_stroke.color = c]) = ret.out
            ELSE ret.out = v.widgets.noninteractive.fg_stroke.color

\* text_color() was called with the override set on visuals whose label color
\* was edited to another color.
C12_Witness ==
    /\ ret.op = "text_color"
    /\ IsSome(style.visuals.override_text_color)
    /\ style.visuals.widgets.noninteractive.fg_stroke.color \in TextPalette
    /\ ret.out # style.visuals.widgets.noninteractive.fg_stroke.color

\* C13: Visuals::weak_text_color() returns the explicit weak_text_color when
\* it is set, whatever weak_text_alpha and override_text_color are; otherwise
\* it returns the effective text_color() (override, else noninteractive
\* fg_stroke color) scaled by weak_text_alpha.
C13_WeakTextColorExplicitElseScaled ==
    ret.op = "weak_text_color" =>
        LET v == style.visuals
            effective == IF IsSome(v.override_text_color)
                         THEN Unwrap(v.override_text_color)
                         ELSE v.widgets.noninteractive.fg_stroke.color
        IN  IF IsSome(v.weak_text_color)
            THEN /\ ret.out = Unwrap(v.weak_text_color)
                 /\ \A a \in Alphas, o \in OptionalColors :
                        Visuals_weak_text_color(
                            [v EXCEPT !.weak_text_alpha = a,
                                      !.override_text_color = o]) = ret.out
            ELSE ret.out = gamma_multiply(effective, v.weak_text_alpha)

\* weak_text_color() was called with the explicit color and the override both
\* set, and the explicit color is not what scaling would have given.
C13_Witness ==
    /\ ret.op = "weak_text_color"
    /\ IsSome(style.visuals.weak_text_color)
    /\ IsSome(style.visuals.override_text_color)
    /\ ret.out # gamma_multiply(Unwrap(style.visuals.override_text_color),
                                style.visuals.weak_text_alpha)

\* C14: Visuals::strong_text_color() is always the active entry's
\* fg_stroke.color: override_text_color, weak_text_color and weak_text_alpha
\* have no effect on it.
C14_StrongTextColorIsActive ==
    ret.op = "strong_text_color" =>
        LET v == style.visuals
        IN  /\ ret.out = v.widgets.active.fg_stroke.color
            /\ \A o \in OptionalColors, w \in OptionalColors, a \in Alphas :
                   Visuals_strong_text_color(
                       [v EXCEPT !.override_text_color = o,
                                 !.weak_text_color = w,
                                 !.weak_text_alpha = a]) = ret.out

\* strong_text_color() was called with the override set to another color.
C14_Witness ==
    /\ ret.op = "strong_text_color"
    /\ IsSome(style.visuals.override_text_color)
    /\ ret.out # Unwrap(style.visuals.override_text_color)

\* The fields Visuals::light() does not list.
UnlistedFields ==
    {"override_text_color", "weak_text_alpha", "weak_text_color",
     "text_edit_bg_color", "window_corner_radius", "window_highlight_topmost",
     "menu_corner_radius", "resize_corner_size", "clip_rect_margin",
     "button_frame", "collapsing_header_frame", "indent_has_left_vline",
     "striped", "slider_trailing_fill", "handle_shape", "interact_cursor",
     "image_loading_spinners", "numeric_color_space", "disabled_alpha"}

\* C15: Visuals::light() is Visuals::dark() with a list of overrides: every
\* field it does not list has in the light preset the value it has in the
\* dark preset, both as constructed and as installed in a style.
C15_LightInheritsUnlistedFields ==
    /\ \A f \in UnlistedFields : Visuals_light[f] = Visuals_dark[f]
    /\ DOMAIN Visuals_light = DOMAIN Visuals_dark
    /\ (edits = 0 /\ ~style.visuals.dark_mode) =>
           \A f \in UnlistedFields : style.visuals[f] = Visuals_dark[f]

\* The style holds the unedited light preset, which is not the dark one.
C15_Witness ==
    /\ edits = 0
    /\ style.visuals = Visuals_light
    /\ style.visuals.widgets # Visuals_dark.widgets
    /\ ret.op = "interact"

\* C16: dark() has dark_mode true, light() has it false, and the defaults of
\* Visuals, Style's visuals, Widgets and Selection are the dark preset; an
\* unedited style therefore holds the preset its dark_mode names.
C16_PresetsAgreeWithDarkMode ==
    /\ Visuals_dark.dark_mode
    /\ ~Visuals_light.dark_mode
    /\ Visuals_default = Visuals_dark
    /\ Style_default.visuals = Visuals_dark
    /\ Widgets_default = Widgets_dark
    /\ Selection_default = Selection_dark
    /\ edits = 0 =>
           style.visuals = IF style.visuals.dark_mode
                           THEN Visuals_dark ELSE Visuals_light

\* The style is the default one, unedited and dark, and a widget has resolved
\* its visuals on it.
C16_Witness ==
    /\ edits = 0
    /\ style = Style_default
    /\ style.visuals.dark_mode
    /\ style.visuals.widgets = Widgets_dark
    /\ ret.op = "interact_selectable"

\* The style that differs from `self` in visuals.dark_mode only.
OtherTheme(self) == [self EXCEPT !.visuals.dark_mode = ~@]

\* Each result handed out is what the call returns on the style that differs
\* in dark_mode only.
DarkModeUnobserved ==
    LET other == OtherTheme(style)
    IN  /\ ret.op = "interact" =>
               /\ Style_interact(other, ret.response) = ret.out
               /\ Deref(other, ret.out) = Deref(style, ret.out)
        /\ ret.op = "interact_selectable" =>
               Style_interact_selectable(other, ret.response, ret.selected) = ret.out
        /\ ret.op = "text_color" => Visuals_text_color(other.visuals) = ret.out
        /\ ret.op = "weak_text_color" =>
               Visuals_weak_text_color(other.visuals) = ret.out
        /\ ret.op = "strong_text_color" =>
               Visuals_strong_text_color(other.visuals) = ret.out
        /\ ret.op = "text_edit_bg_color" =>
               Visuals_text_edit_bg_color(other.visuals) = ret.out
        /\ ret.op = "disable" => Visuals_disable(other.visuals, ret.color) = ret.out
        /\ ret.op = "gray_out" => Visuals_gray_out(other.visuals, ret.color) = ret.out

\* A step that changes dark_mode changes nothing else of the style.
DarkModeWriteIsLocal ==
    style'.visuals.dark_mode # style.visuals.dark_mode => style' = OtherTheme(style)

\* C17: dark_mode is informational.  Two Visuals that differ only in dark_mode
\* give the same result for Widgets::style on every response, for
\* interact_selectable, text_color, weak_text_color, strong_text_color,
\* text_edit_bg_color, disable and gray_out, and a write of dark_mode changes
\* no other field.
C17_DarkModeInformational ==
    []DarkModeUnobserved /\ [][DarkModeWriteIsLocal]_vars

\* A color was faded on visuals whose dark_mode was written to disagree with
\* the widget palette they carry.
C17_Witness ==
    /\ ret.op = "disable"
    /\ ~style.visuals.dark_mode
    /\ style.visuals.widgets = Widgets_dark
    /\ ret.out # ret.color

\* C18: ScrollStyle::allocated_width() is floating_allocated_width for a
\* floating style and bar_inner_margin + bar_width + bar_outer_margin for a
\* solid one: 0 for a floating style whose floating_allocated_width is 0, and
\* 10 points for the solid preset (4 + 6 + 0).
C18_AllocatedWidth ==
    ret.op = "allocated_width" =>
        LET scroll == style.spacing.scroll
        IN  /\ scroll.floating => ret.out = scroll.floating_allocated_width
            /\ ~scroll.floating =>
                   ret.out = scroll.bar_inner_margin + scroll.bar_width
                             + scroll.bar_outer_margin
            /\ (scroll.floating /\ scroll.floating_allocated_width = 0) =>
                   ret.out = 0
            /\ scroll = ScrollStyle_solid => ret.out = 100

\* allocated_width() was called on a floating style that reserves no room
\* although the sum of its margins and bar width is not zero.
C18_Witness ==
    /\ ret.op = "allocated_width"
    /\ style.spacing.scroll.floating
    /\ style.spacing.scroll.floating_allocated_width = 0
    /\ style.spacing.scroll.bar_width > 0
    /\ ret.out = 0

\* C19: with the duration of a scroll being distance / points_per_second
\* clamped into [duration.min, duration.max], ScrollAnimation::none() gives 0
\* for every distance and ScrollAnimation::duration(t) gives exactly t (both
\* have an infinite speed and min = max), and the default divides by 1000
\* points per second and clamps into [0.1 s, 0.3 s].
C19_AnimationDurations ==
    /\ ScrollAnimation_none.points_per_second.inf
    /\ ScrollAnimation_none.duration.min = ScrollAnimation_none.duration.max
    /\ \A t \in Durations :
           /\ ScrollAnimation_duration(t).points_per_second.inf
           /\ ScrollAnimation_duration(t).duration.min = t
           /\ ScrollAnimation_duration(t).duration.max = t
    /\ ret.op = "animation_duration" =>
           LET a == style.scroll_animation
           IN  /\ a = ScrollAnimation_none => ret.out = 0
               /\ \A t \in Durations :
                      a = ScrollAnimation_duration(t) => ret.out = t
               /\ a = ScrollAnimation_default =>
                      ret.out = IF ret.distance < 100 THEN 100
                                ELSE IF ret.distance > 300 THEN 300
                                ELSE ret.distance

\* A long scroll ran with a fixed duration of 0.2 s.
C19_Witness ==
    /\ ret.op = "animation_duration"
    /\ style.scroll_animation = ScrollAnimation_duration(200)
    /\ ret.distance = 1000
    /\ ret.out = 200

\* C20: equality of NumberFormatter is identity of the callable.  A clone of a
\* formatter equals the original, so a clone of a Style equals the original;
\* formatters constructed separately are unequal even when they wrap the same
\* function, and so are two values of Style::default().
C20_FormatterEqualityIsIdentity ==
    /\ ret.op = "NumberFormatter::clone" =>
           NumberFormatter_eq(ret.out, style.number_formatter)
    /\ ret.op = "Style::clone" => Style_eq(ret.out, style)
    /\ ret.op = "NumberFormatter::new" =>
           ~NumberFormatter_eq(ret.out, style.number_formatter)
    /\ ret.op = "Style::default" => ~Style_eq(ret.out, style)

\* A second Style::default() was built next to an unedited default style: the
\* two agree in every field and wrap the same function.
C20_Witness ==
    /\ ret.op = "Style::default"
    /\ edits = 0
    /\ \A f \in DOMAIN style \ {"number_formatter"} : ret.out[f] = style[f]
    /\ ret.out.number_formatter.fn = style.number_formatter.fn

KeyRank(k) ==
    CASE k = TextStyle_Small -> 1
      [] k = TextStyle_Body -> 2
      [] k = TextStyle_Monospace -> 3
      [] k = TextStyle_Button -> 4
      [] k = TextStyle_Heading -> 5
      [] OTHER -> 5 + k.name

\* The enumeration handed out lists every key of the map once, in rank order.
EnumerationSorted ==
    ret.op = "text_styles" =>
        /\ Range(ret.out) = DOMAIN style.text_styles
        /\ Len(ret.out) = Cardinality(DOMAIN style.text_styles)
        /\ \A i, j \in 1..Len(ret.out) :
               i < j => KeyRank(ret.out[i]) < KeyRank(ret.out[j])

\* An insert under a key the map already has changes that key's FontId and
\* nothing else; one under a new key adds that key and changes nothing else.
InsertReplaces ==
    \A k \in MapKeys :
        (k \in DOMAIN style'.text_styles /\ style' # style
         /\ BTreeMap_get(style.text_styles, k) # Some(style'.text_styles[k])
         /\ DOMAIN style'.text_styles = DOMAIN style.text_styles \cup {k}) =>
            \A o \in DOMAIN style.text_styles \ {k} :
                style'.text_styles[o] = style.text_styles[o]

\* C23: Style::text_styles() enumerates every key of the map exactly once and
\* in sorted order, Small < Body < Monospace < Button < Heading < every
\* Name(..) with names by their string, whatever the order of the inserts; an
\* insert under an existing key replaces its FontId and adds no entry.
C23_TextStylesSortedUnique ==
    []EnumerationSorted /\ [][InsertReplaces]_vars

\* text_styles() was called on a map that got both user-defined names and
\* lost nothing.
C23_Witness ==
    /\ ret.op = "text_styles"
    /\ Len(ret.out) = 7
    /\ ret.out[6] = TextStyle_Name(1)
    /\ ret.out[7] = TextStyle_Name(2)

\* C24: "Reset visuals" replaces the whole Visuals by Visuals::dark() when
\* dark_mode was true before the reset and by Visuals::light() otherwise: a
\* reset never switches theme, and right after it dark_mode agrees with the
\* preset whose colors are installed, even if the two disagreed before.
C24_ResetKeepsTheme ==
    ret.op = "Reset visuals" =>
        /\ style.visuals.dark_mode = ret.before.dark_mode
        /\ style.visuals =
               IF ret.before.dark_mode THEN Visuals_dark ELSE Visuals_light
        /\ style.visuals.widgets =
               IF style.visuals.dark_mode THEN Widgets_dark ELSE Widgets_light

\* The visuals carried the dark colors with dark_mode written to false, and
\* were reset: the light preset is installed.
C24_Witness ==
    /\ ret.op = "Reset visuals"
    /\ ~ret.before.dark_mode
    /\ ret.before.widgets = Widgets_dark
    /\ style.visuals = Visuals_light

\* The five keys the toolkit looks up by default are in the map.
BaselineKeysPresent == BuiltinTextStyles \subseteq DOMAIN style.text_styles

\* "Reset text styles" installs default_text_styles() and changes nothing else.
ResetInstallsDefaults ==
    ResetTextStyles =>
        style' = [style EXCEPT !.text_styles = default_text_styles]

\* C25: starting from a Style whose text_styles has the five baseline keys,
\* every sequence of text-style editor operations (editing the FontId of an
\* entry, "Reset text styles") leaves Small, Body, Monospace, Button and
\* Heading present, and the reset installs exactly default_text_styles().
C25_EditorKeepsBaselineKeys ==
    []BaselineKeysPresent /\ [][ResetInstallsDefaults]_vars

\* The map was reset while it held a user-defined key that the override names:
\* it is default_text_styles() again and the user-defined key is gone.
C25_Witness ==
    /\ style.text_styles = default_text_styles
    /\ style.override_text_style = Some(TextStyle_Name(1))
    /\ BaselineKeysPresent

\* C26: after any sequence of Style editor operations on a Style whose
\* override_text_style and drag_value_text_style are keys of its text_styles,
\* the two fields still name keys of text_styles whenever they are set, so
\* FontSelection::Default.resolve and drag_value_text_style.resolve never
\* fail.
C26_EditorKeepsSelectedKeysPresent ==
    /\ IsSome(style.override_text_style) =>
           Unwrap(style.override_text_style) \in DOMAIN style.text_styles
    /\ style.drag_value_text_style \in DOMAIN style.text_styles
    /\ ret.op \in {"FontSelection::resolve", "TextStyle::resolve"} =>
           ret.out.kind = "ok"

\* What interact_selectable handed out differs from the entry interact points
\* at in the selection-driven fields only, and not at all when not selected.
SelectableFrame ==
    ret.op = "interact_selectable" =>
        LET unselected == Deref(style, Style_interact(style, ret.response))
        IN  /\ ret.out.corner_radius = unselected.corner_radius
            /\ ret.out.expansion = unselected.expansion
            /\ ret.out.bg_stroke = unselected.bg_stroke
            /\ ~ret.selected => ret.out = unselected

\* A step that hands out a result of interact_selectable leaves the style,
\* its widget entries and its selection as they were.
SelectableLeavesStyle ==
    (ret'.op = "interact_selectable" /\ ret' # ret) => style' = style

\* C27: interact_selectable changes nothing but the three selection-driven
\* fields: with selected = true the returned corner_radius, expansion and
\* bg_stroke are those of interact(response); with selected = false the
\* returned WidgetVisuals equals interact(response) in every field; in both
\* cases the Style is left unchanged.
C27_SelectableFrame ==
    []SelectableFrame /\ [][SelectableLeavesStyle]_vars

\* A selected resolution on an entry whose expansion was edited: the result
\* keeps the edited expansion and takes the selection's fill.
C27_Witness ==
    /\ ret.op = "interact_selectable"
    /\ ret.selected
    /\ ret.out.expansion \in Expansions
    /\ ret.out.bg_fill = style.visuals.selection.bg_fill
    /\ ret.out # Deref(style, Style_interact(style, ret.response))

\* C28: applying a modifier built from a Style s overwrites the target
\* wholesale, so the target then equals s whatever it held, and applying it
\* again changes nothing; applying the empty modifier leaves the target as it
\* was; hence after a sequence of Style-built and empty modifiers the target
\* equals the Style of the last Style-built modifier applied.
C28_ModifierOverwrites ==
    ret.op = "apply" =>
        /\ IsSome(ret.modifier) =>
               /\ style = Unwrap(ret.modifier).assign
               /\ Style_eq(style, Unwrap(ret.modifier).assign)
        /\ ~IsSome(ret.modifier) => style = ret.before
        /\ StyleModifier_apply(ret.modifier, style) = style
        /\ IsSome(ret.last) => Style_eq(style, Unwrap(ret.last))

\* The empty modifier was applied after a Style-built one: the target still is
\* the style that one was built from, font override included.
C28_Witness ==
    /\ ret.op = "apply"
    /\ ~IsSome(ret.modifier)
    /\ IsSome(ret.last)
    /\ style = Unwrap(ret.last)
    /\ IsSome(style.override_font_id)
    /\ style.visuals = Visuals_dark

\* C29: after every pass of the CornerRadius editor the four corners are all
\* equal exactly if the checkbox is checked; with the checkbox unchecked and
\* equal corners only se changes, to 1 if all are 0 and else down by exactly
\* 1, so that the u8 subtraction never goes below 0; with the checkbox checked
\* every corner becomes the average of the four, to the nearest u8.
C29_CornersFollowCheckbox ==
    ret.op = "CornerRadius::ui" =>
        LET now == style.visuals.window_corner_radius
            sum == CornerRadius_average(ret.edited)
        IN  /\ CornerRadius_is_same(now) <=> ret.same
            /\ ~ret.underflow
            /\ (~ret.same /\ CornerRadius_is_same(ret.edited)) =>
                   /\ now.nw = ret.edited.nw
                   /\ now.ne = ret.edited.ne
                   /\ now.sw = ret.edited.sw
                   /\ now.se = IF ret.edited.se = 0 THEN 1 ELSE ret.edited.se - 1
                   /\ now.se \in 0..U8_MAX
            /\ ret.same =>
                   /\ now = CornerRadius_same(now.nw)
                   /\ now.nw \in 0..U8_MAX
                   /\ 4 * now.nw - sum \in -1..2

\* The checkbox is unchecked in a pass whose corners are all 1: se goes down
\* to 0 and stays a u8.
C29_Witness ==
    /\ ret.op = "CornerRadius::ui"
    /\ ~ret.same
    /\ ret.edited = CornerRadius_same(1)
    /\ style.visuals.window_corner_radius.se = 0
    /\ style.visuals.window_corner_radius.nw = 1

\* C30: in a pass of the Sliders demo min and max are first clamped into the
\* range of the selected type: the i32 range if integer is set, whatever
\* logarithmic is; no bound if logarithmic is set and integer is not;
\* [-1e5, 1e5] otherwise.  The step handed to the slider is `step` if
\* use_steps is set and 0 otherwise.  A pass in integer mode leaves a value
\* that is integral and within the i32 range.
C30_SlidersPass ==
    ret.op = "Sliders::ui" =>
        LET before == ret.before
            lo == IF before.integer THEN Num(I32_MIN, 0)
                  ELSE IF before.logarithmic THEN F64_NEG_INFINITY
                  ELSE Num(-LinearLimit, 0)
            hi == IF before.integer THEN Num(I32_MAX, 0)
                  ELSE IF before.logarithmic THEN F64_INFINITY
                  ELSE Num(LinearLimit, 0)
            Clamped(was, now) ==
                /\ ~F64_lt(now, lo) /\ ~F64_lt(hi, now)
                /\ (~F64_lt(was, lo) /\ ~F64_lt(hi, was)) => now = was
                /\ F64_lt(was, lo) => now = lo
                /\ F64_lt(hi, was) => now = hi
        IN  /\ Clamped(before.min, ret.min)
            /\ Clamped(before.max, ret.max)
            /\ (before.logarithmic /\ ~before.integer) =>
                   ret.min = before.min /\ ret.max = before.max
            /\ ret.istep = IF before.use_steps THEN before.step ELSE Num(0, 0)
            /\ before.integer =>
                   /\ IsNum(sliders.value)
                   /\ sliders.value.milli = 0
                   /\ sliders.value.whole \in I32_MIN..I32_MAX

\* A pass in integer mode, logarithmic being set as well, found min at minus
\* infinity and a value above the i32 range: min became i32::MIN and the
\* value i32::MAX.
C30_Witness ==
    /\ ret.op = "Sliders::ui"
    /\ ret.before.integer /\ ret.before.logarithmic
    /\ ret.before.min = F64_NEG_INFINITY
    /\ ret.min = Num(I32_MIN, 0)
    /\ ret.before.value = Beyond(1, FALSE)
    /\ sliders.value = Num(I32_MAX, 0)

====
